---- MODULE Spec2Model ----
(***************************************************************************)
(* A model of linkme's extraction rule engine (src/src/linkme.ts): the     *)
(* DOM search primitives, the content accessors, the rule set and the      *)
(* dispatcher getDocInfo.                                                  *)
(*                                                                         *)
(* Strings are TLA+ strings; a document is a tree of element ids with an   *)
(* ordered child list per element (kids) and a record of attributes per    *)
(* element (el).                                                           *)
(***************************************************************************)
EXTENDS Integers, Sequences, FiniteSets, TLC

VARIABLES
  kids,     \* the live document: element id -> sequence of its element children
  kids0,    \* history: the document tree when the current call started
  cond,     \* the MatchCondition under test: element id -> "true" | "false" | "throw"
  pcD,      \* position of the search-primitive caller
  startEl,  \* the startElement handed to findNextElementDFS
  ret,      \* what the primitive returned: [res, exc]
  txtIn,    \* the string handed to cleanupContent
  txtOut,   \* cleanupContent(txtIn)
  txtOut2,  \* cleanupContent(txtOut)
  pcT,      \* how often cleanupContent has been applied
  location, \* window.location of the page
  docTitle, \* document.title of the page
  attrs,    \* element id -> tag, own text and attributes of the element
  pc,       \* call -> position of that call of getDocInfo
  ruleIdx,  \* call -> index i of the rule loop, counted from 1
  pending,  \* call -> outcome of the extractor the call awaits
  returned, \* call -> the DocInfo the call fulfilled with
  active,   \* the call that is running, 0 when none is
  memo,     \* what the rules and the generic resolver yield on the page
  logs,     \* Logger.logs: the messages pushed, each with the call it is from
  trace     \* history: what the calls did, in order

dfsVars == <<kids, kids0, cond, pcD, startEl, ret>>
txtVars == <<txtIn, txtOut, txtOut2, pcT>>
disVars ==
  <<location, docTitle, attrs, pc, ruleIdx, pending, returned, active, memo,
    logs, trace>>
vars == <<dfsVars, txtVars, disVars>>

(***************************************************************************)
(* Bounds of the model.                                                    *)
(***************************************************************************)
\* elements of a searched document besides html, head and body
MaxExtra == 2
\* pieces an input of cleanupContent is put together from
MaxPieces == 3

(***************************************************************************)
(* Strings.                                                                *)
(***************************************************************************)
CharAt(s, i) == SubSeq(s, i, i)

\* s.startsWith(t, i - 1), positions counted from 1
StartsWithAt(s, t, i) ==
  /\ i + Len(t) - 1 <= Len(s)
  /\ SubSeq(s, i, i + Len(t) - 1) = t

startsWith(s, t) == StartsWithAt(s, t, 1)
endsWith(s, t) == Len(t) <= Len(s) /\ StartsWithAt(s, t, Len(s) - Len(t) + 1)
includes(s, t) == \E i \in 1..(Len(s) - Len(t) + 1) : StartsWithAt(s, t, i)

NBSP == "_"     \* stands for U+00A0, the character &nbsp; decodes to

\* the characters the regular expression class \s and trim() treat as white space
IsSpace(ch) == ch \in {" ", "\n", "\t", NBSP}

(***************************************************************************)
(* The document tree.                                                      *)
(***************************************************************************)
Null == -1        \* JavaScript null
HtmlEl == 1       \* document.documentElement
HeadEl == 2       \* document.head
BodyEl == 3       \* document.body
dummyStart == 0   \* the element findFirstInWholeDFS creates

Elements(k) == DOMAIN k

\* element.parentNode: the element whose child list holds n, or null
parentNode(k, n) ==
  IF \E p \in DOMAIN k : \E i \in 1..Len(k[p]) : k[p][i] = n
  THEN CHOOSE p \in DOMAIN k : \E i \in 1..Len(k[p]) : k[p][i] = n
  ELSE Null

\* parent.insertBefore(node, parent.firstChild)
insertBefore(k, parent, node) ==
  [n \in DOMAIN k \cup {node} |->
     IF n = parent THEN <<node>> \o k[parent]
     ELSE IF n = node THEN <<>>
     ELSE k[n]]

\* parent.appendChild(node)
appendChild(k, parent, node) ==
  [n \in DOMAIN k \cup {node} |->
     IF n = parent THEN k[parent] \o <<node>>
     ELSE IF n = node THEN <<>>
     ELSE k[n]]

\* parent.removeChild(node): node and its subtree leave the document
removeChild(k, parent, node) ==
  [n \in DOMAIN k \ {node} |->
     IF n = parent THEN SelectSeq(k[parent], LAMBDA c : c # node)
     ELSE k[n]]

(***************************************************************************)
(* Document order (depth-first pre-order), as the DOM defines it.           *)
(***************************************************************************)
RECURSIVE Preorder(_, _)
RECURSIVE PreorderAll(_, _)
PreorderAll(k, s) ==
  IF s = <<>> THEN <<>> ELSE Preorder(k, Head(s)) \o PreorderAll(k, Tail(s))
Preorder(k, n) == <<n>> \o PreorderAll(k, k[n])

DocOrder(k) == Preorder(k, HtmlEl)

PosIn(s, x) == CHOOSE i \in 1..Len(s) : s[i] = x

\* the first element after position from in document order on which c is
\* "true", or null
FirstTrueAfter(k, c, from) ==
  LET o == DocOrder(k)
      hits == {i \in (from + 1)..Len(o) : c[o[i]] = "true"}
  IN  IF hits = {} THEN Null
      ELSE o[CHOOSE i \in hits : \A j \in hits : i <= j]

(***************************************************************************)
(* findNextElementDFS                                                      *)
(***************************************************************************)
NoResult(found) == [res |-> Null, found |-> found, exc |-> FALSE]

\* the only element of a one-element set; a value taken from a set is
\* computed once however often it is used
TheOne(S) == CHOOSE x \in S : TRUE

RECURSIVE dfsTraversal(_, _, _, _, _)
RECURSIVE dfsChildren(_, _, _, _, _, _)

\* dfsTraversal with the start element itself put to the condition
dfsTraversal_TestsStart(k, c, element, startElement, foundStart) ==
  IF ~foundStart /\ element # startElement
  THEN dfsChildren(k, c, element, 1, startElement, FALSE)
  ELSE IF c[element] = "throw"
       THEN [res |-> Null, found |-> TRUE, exc |-> TRUE]
       ELSE IF c[element] = "true"
            THEN [res |-> element, found |-> TRUE, exc |-> FALSE]
            ELSE dfsChildren(k, c, element, 1, startElement, TRUE)

\* for (const child of Array.from(element.children)) {
\*   const result = dfsTraversal(child); if (result) return result; }
\* return null;
dfsChildren(k, c, element, i, startElement, foundStart) ==
  IF i > Len(k[element]) THEN NoResult(foundStart)
  ELSE TheOne({ IF r.exc \/ r.res # Null THEN r
                ELSE dfsChildren(k, c, element, i + 1, startElement, r.found) :
                r \in {dfsTraversal(k, c, k[element][i], startElement,
                                    foundStart)} })

\* the closure dfsTraversal; foundStart is threaded through and returned
dfsTraversal(k, c, element, startElement, foundStart) ==
  IF ~foundStart
  THEN dfsChildren(k, c, element, 1, startElement, element = startElement)
  ELSE IF c[element] = "throw"
       THEN [res |-> Null, found |-> TRUE, exc |-> TRUE]
       ELSE IF c[element] = "true"
            THEN [res |-> element, found |-> TRUE, exc |-> FALSE]
            ELSE dfsChildren(k, c, element, 1, startElement, TRUE)

findNextElementDFS(k, c, startElement) ==
  TheOne({ IF result.exc \/ result.res # Null
           THEN [res |-> result.res, exc |-> result.exc]
           ELSE TheOne({ [res |-> second.res, exc |-> second.exc] :
                  second \in {dfsTraversal(k, c, HtmlEl, startElement, FALSE)} }) :
           result \in {dfsTraversal(k, c, BodyEl, startElement, FALSE)} })

(***************************************************************************)
(* findFirstInWholeDFS                                                     *)
(***************************************************************************)
\* a finally block that removes nothing
removeDummy_Skips(k) == k

\* the finally block: if (dummyStart.parentNode) parentNode.removeChild(dummyStart)
removeDummy(k) ==
  IF parentNode(k, dummyStart) # Null
  THEN removeChild(k, parentNode(k, dummyStart), dummyStart)
  ELSE k

\* findFirstInWholeDFS that leaves its anchor in the document
findFirstInWholeDFS_KeepsAnchor(k, c) ==
  TheOne({ TheOne({ [doc |-> inserted,
                     res |-> result.res, exc |-> result.exc] :
                    result \in {findNextElementDFS(inserted, c, dummyStart)} }) :
           inserted \in {IF Len(k[BodyEl]) > 0
                         THEN insertBefore(k, BodyEl, dummyStart)
                         ELSE appendChild(k, BodyEl, dummyStart)} })

\* findFirstInWholeDFS with the removal after the search instead of in a
\* finally block: an exception skips it
findFirstInWholeDFS_NoFinally(k, c) ==
  TheOne({ TheOne({ [doc |-> IF result.exc THEN inserted
                             ELSE removeDummy(inserted),
                     res |-> result.res, exc |-> result.exc] :
                    result \in {findNextElementDFS(inserted, c, dummyStart)} }) :
           inserted \in {IF Len(k[BodyEl]) > 0
                         THEN insertBefore(k, BodyEl, dummyStart)
                         ELSE appendChild(k, BodyEl, dummyStart)} })

\* returns the document after the call, the element found and whether it threw
findFirstInWholeDFS(k, c) ==
  TheOne({ TheOne({ [doc |-> removeDummy(inserted),
                     res |-> result.res, exc |-> result.exc] :
                    result \in {findNextElementDFS(inserted, c, dummyStart)} }) :
           inserted \in {IF Len(k[BodyEl]) > 0
                         THEN insertBefore(k, BodyEl, dummyStart)
                         ELSE appendChild(k, BodyEl, dummyStart)} })

(***************************************************************************)
(* cleanupContent                                                          *)
(***************************************************************************)
\* the named character references of the model, with what each decodes to;
\* the parser accepts these with and without the closing semicolon
EntityNames == <<"amp", "lt", "nbsp">>
EntityChar(name) ==
  CASE name = "amp" -> "&" [] name = "lt" -> "<" [] name = "nbsp" -> NBSP

\* textarea.innerHTML = content; textarea.value: one pass over the text that
\* replaces each character reference by its character
RECURSIVE decodeFrom(_, _)
decodeFrom(s, i) ==
  IF i > Len(s) THEN ""
  ELSE IF CharAt(s, i) # "&" THEN CharAt(s, i) \o decodeFrom(s, i + 1)
  ELSE LET named == {j \in 1..Len(EntityNames) :
                        StartsWithAt(s, EntityNames[j], i + 1)}
       IN  IF named = {} THEN "&" \o decodeFrom(s, i + 1)
           ELSE LET name == EntityNames[CHOOSE j \in named : TRUE]
                    after == i + 1 + Len(name)
                IN  IF StartsWithAt(s, ";", after)
                    THEN EntityChar(name) \o decodeFrom(s, after + 1)
                    ELSE EntityChar(name) \o decodeFrom(s, after)

decodeEntities(s) == decodeFrom(s, 1)

\* s.replace(/\s+/g, " ")
RECURSIVE collapseFrom(_, _)
collapseFrom(s, i) ==
  IF i > Len(s) THEN ""
  ELSE IF IsSpace(CharAt(s, i))
       THEN IF i > 1 /\ IsSpace(CharAt(s, i - 1))
            THEN collapseFrom(s, i + 1)
            ELSE " " \o collapseFrom(s, i + 1)
       ELSE CharAt(s, i) \o collapseFrom(s, i + 1)

collapseSpace(s) == collapseFrom(s, 1)

\* the length of the run of white space of s that starts (ends) at i
RECURSIVE spacesAt(_, _)
spacesAt(s, i) ==
  IF i <= Len(s) /\ IsSpace(CharAt(s, i)) THEN 1 + spacesAt(s, i + 1) ELSE 0

RECURSIVE spacesBefore(_, _)
spacesBefore(s, i) ==
  IF i >= 1 /\ IsSpace(CharAt(s, i)) THEN 1 + spacesBefore(s, i - 1) ELSE 0

\* s.trim()
trim(s) ==
  IF spacesAt(s, 1) = Len(s) THEN ""
  ELSE SubSeq(s, 1 + spacesAt(s, 1), Len(s) - spacesBefore(s, Len(s)))

\* cleanupContent that collapses and trims before it decodes
cleanupContent_DecodeLast(content) ==
  IF content = "" THEN content
  ELSE decodeEntities(trim(collapseSpace(content)))

cleanupContent(content) ==
  IF content = "" THEN content
  ELSE TheOne({trim(collapsed) :
         collapsed \in {collapseSpace(decoded) :
           decoded \in {decodeEntities(content)}}})

(***************************************************************************)
(* The harness of cleanupContent.                                          *)
(***************************************************************************)
Pieces == {"a", " ", "\n", "&", "amp;", "&amp;", "&nbsp;", "&lt", "nbsp;"}

RECURSIVE Joined(_)
Joined(n) ==
  IF n = 0 THEN {""}
  ELSE Joined(n - 1) \cup {s \o p : s \in Joined(n - 1), p \in Pieces}

ParkedDFS ==
  /\ kids = [n \in {HtmlEl, HeadEl, BodyEl} |->
               IF n = HtmlEl THEN <<HeadEl, BodyEl>> ELSE <<>>]
  /\ kids0 = kids
  /\ cond = [n \in {dummyStart, HtmlEl, HeadEl, BodyEl} |-> "false"]
  /\ pcD = "parked"
  /\ startEl = Null
  /\ ret = [res |-> Null, exc |-> FALSE]

ParkedText ==
  /\ txtIn = ""
  /\ txtOut = ""
  /\ txtOut2 = ""
  /\ pcT = "parked"

ParkedDispatch ==
  /\ location = <<>>
  /\ docTitle = ""
  /\ attrs = <<>>
  /\ pc = <<>>
  /\ ruleIdx = <<>>
  /\ pending = <<>>
  /\ returned = <<>>
  /\ active = 0
  /\ memo = <<>>
  /\ logs = <<>>
  /\ trace = <<>>

InitText ==
  /\ txtIn \in Joined(MaxPieces)
  /\ txtOut = ""
  /\ txtOut2 = ""
  /\ pcT = "fresh"
  /\ ParkedDFS
  /\ ParkedDispatch

Normalize ==
  /\ pcT = "fresh"
  /\ txtOut' = cleanupContent(txtIn)
  /\ pcT' = "once"
  /\ UNCHANGED <<txtIn, txtOut2, dfsVars, disVars>>

NormalizeAgain ==
  /\ pcT = "once"
  /\ txtOut2' = cleanupContent(txtOut)
  /\ pcT' = "twice"
  /\ UNCHANGED <<txtIn, txtOut, dfsVars, disVars>>

NextText == Normalize \/ NormalizeAgain

SpecText == InitText /\ [][NextText]_vars

(***************************************************************************)
(* Documents and conditions the search primitives are exercised on.        *)
(***************************************************************************)
ExtraIds(n) == 4..(3 + n)

\* every tree html(head, body, ...) with n further elements; an element's
\* parent has a smaller id and siblings are ordered by id
RECURSIVE SeqOfSet(_)
SeqOfSet(S) ==
  IF S = {} THEN <<>>
  ELSE LET m == CHOOSE x \in S : \A y \in S : x <= y
       IN  <<m>> \o SeqOfSet(S \ {m})

TreeOf(par) ==
  LET ids == {HtmlEl, HeadEl, BodyEl} \cup DOMAIN par
      up(n) == IF n \in DOMAIN par THEN par[n]
               ELSE IF n = HtmlEl THEN Null ELSE HtmlEl
  IN  [p \in ids |-> SeqOfSet({n \in ids : up(n) = p})]

Trees ==
  UNION { { TreeOf(par) :
              par \in { f \in [ExtraIds(n) -> 1..(3 + n)] :
                          \A x \in ExtraIds(n) : f[x] < x } } :
          n \in 0..MaxExtra }

\* conditions: which elements match, and at most one element on which the
\* condition throws
Conds(ids) ==
  UNION { { [n \in ids \cup {dummyStart} |->
               IF n = t THEN "throw" ELSE IF n \in M THEN "true" ELSE "false"] :
            t \in ids \cup {Null} } :
          M \in SUBSET (ids \cup {dummyStart}) }

(***************************************************************************)
(* The harness of the search primitives.                                   *)
(***************************************************************************)
InitDFS ==
  /\ kids \in Trees
  /\ kids0 = kids
  /\ cond \in Conds(DOMAIN kids)
  /\ pcD = "idle"
  /\ startEl = Null
  /\ ret = [res |-> Null, exc |-> FALSE]
  /\ ParkedText
  /\ ParkedDispatch

CallFindNext ==
  /\ pcD = "idle"
  /\ \E s \in Elements(kids) :
       /\ startEl' = s
       /\ ret' = findNextElementDFS(kids, cond, s)
  /\ pcD' = "findNext"
  /\ UNCHANGED <<kids, kids0, cond, txtVars, disVars>>

CallFindFirst ==
  /\ pcD = "idle"
  /\ LET r == findFirstInWholeDFS(kids, cond)
     IN  /\ kids' = r.doc
         /\ ret' = [res |-> r.res, exc |-> r.exc]
  /\ pcD' = "findFirst"
  /\ UNCHANGED <<kids0, cond, startEl, txtVars, disVars>>

\* the caller takes the result and is ready for its next call
ReturnDFS ==
  /\ pcD \in {"findNext", "findFirst"}
  /\ pcD' = "idle"
  /\ kids0' = kids
  /\ startEl' = Null
  /\ ret' = [res |-> Null, exc |-> FALSE]
  /\ UNCHANGED <<kids, cond, txtVars, disVars>>

NextDFS == CallFindNext \/ CallFindFirst \/ ReturnDFS

SpecDFS == InitDFS /\ [][NextDFS]_vars

(***************************************************************************)
(* More string operations of the rules.                                    *)
(***************************************************************************)
MIDDOT == "^"   \* stands for U+00B7, the middle dot of GitHub titles
BULLET == "@"   \* stands for U+25CF, the bullet of Asana titles
ENDASH == "~"   \* stands for U+2013, the en dash of Figma titles

Undefined == "<undefined>"   \* a property the location object does not have
Absent == "<absent>"         \* getAttribute(name) === null

IsDigit(ch) == ch \in {"0", "1", "2", "3", "4", "5", "6", "7", "8", "9"}

\* s.indexOf(t) and s.lastIndexOf(t), positions from 1, 0 when t is not in s
indexOf(s, t) ==
  LET at == {i \in 1..(Len(s) - Len(t) + 1) : StartsWithAt(s, t, i)}
  IN  IF at = {} THEN 0 ELSE CHOOSE i \in at : \A j \in at : i <= j

lastIndexOf(s, t) ==
  LET at == {i \in 1..(Len(s) - Len(t) + 1) : StartsWithAt(s, t, i)}
  IN  IF at = {} THEN 0 ELSE CHOOSE i \in at : \A j \in at : i >= j

\* s.substring(i - 1), s.substring(0, i - 1)
From(s, i) == SubSeq(s, i, Len(s))
Upto(s, i) == SubSeq(s, 1, i)

\* s.split(sep): the pieces of s from position start on, sep looked for
\* from position i on
RECURSIVE splitFrom(_, _, _, _)
splitFrom(s, sep, start, i) ==
  IF i > Len(s) - Len(sep) + 1 THEN <<SubSeq(s, start, Len(s))>>
  ELSE IF StartsWithAt(s, sep, i)
       THEN <<SubSeq(s, start, i - 1)>>
              \o splitFrom(s, sep, i + Len(sep), i + Len(sep))
       ELSE splitFrom(s, sep, start, i + 1)

split(s, sep) == splitFrom(s, sep, 1, 1)

\* the length of the run of digits of s that starts at i
RECURSIVE digitsAt(_, _)
digitsAt(s, i) ==
  IF i <= Len(s) /\ IsDigit(CharAt(s, i)) THEN 1 + digitsAt(s, i + 1) ELSE 0

\* the number of trailing white-space characters of s
trailingSpace(s) == spacesBefore(s, Len(s))

\* /^(.*)SEP(.+)$/ : the greedy first group ends at the last SEP that has at
\* least one character after it; 0 when there is no match
lastSepWithRest(s, sep) ==
  LET at == {i \in 1..(Len(s) - Len(sep)) : StartsWithAt(s, sep, i)}
  IN  IF at = {} THEN 0 ELSE CHOOSE i \in at : \A j \in at : i >= j

(***************************************************************************)
(* window.location and URL handling.                                       *)
(***************************************************************************)
\* the percent escapes of the model
Escapes == <<"%25", "%3A", "%22", "%20", "%2F">>
Unescaped(x) ==
  CASE x = "%25" -> "%" [] x = "%3A" -> ":" [] x = "%22" -> "\""
    [] x = "%20" -> " " [] x = "%2F" -> "/"

IsEscapeAt(s, i) == \E j \in 1..Len(Escapes) : StartsWithAt(s, Escapes[j], i)

\* percent-decoding that leaves a malformed escape as it is (URLSearchParams)
RECURSIVE percentDecodeLenient(_, _)
percentDecodeLenient(s, i) ==
  IF i > Len(s) THEN ""
  ELSE IF IsEscapeAt(s, i)
       THEN Unescaped(SubSeq(s, i, i + 2)) \o percentDecodeLenient(s, i + 3)
       ELSE IF CharAt(s, i) = "+" THEN " " \o percentDecodeLenient(s, i + 1)
       ELSE CharAt(s, i) \o percentDecodeLenient(s, i + 1)

\* decodeURIComponent: a % that starts no escape makes it throw URIError
RECURSIVE uriMalformed(_, _)
uriMalformed(s, i) ==
  IF i > Len(s) THEN FALSE
  ELSE IF CharAt(s, i) = "%"
       THEN IF IsEscapeAt(s, i) THEN uriMalformed(s, i + 3) ELSE TRUE
       ELSE uriMalformed(s, i + 1)

RECURSIVE uriDecode(_, _)
uriDecode(s, i) ==
  IF i > Len(s) THEN ""
  ELSE IF IsEscapeAt(s, i)
       THEN Unescaped(SubSeq(s, i, i + 2)) \o uriDecode(s, i + 3)
       ELSE CharAt(s, i) \o uriDecode(s, i + 1)

decodeURIComponent(s) ==
  IF uriMalformed(s, 1) THEN [ok |-> FALSE, val |-> "URIError: URI malformed"]
  ELSE [ok |-> TRUE, val |-> uriDecode(s, 1)]

\* new URLSearchParams(search).get(name): the first parameter of that name,
\* decoded, or null
searchParamsGet(search, name) ==
  IF search = Undefined \/ search = "" THEN Absent
  ELSE TheOne({
         LET hits == {i \in 1..Len(parts) :
                        parts[i] = name \/ startsWith(parts[i], name \o "=")}
         IN  IF hits = {} THEN Absent
             ELSE LET part == parts[CHOOSE i \in hits : \A j \in hits : i <= j]
                  IN  IF part = name THEN ""
                      ELSE percentDecodeLenient(From(part, Len(name) + 2), 1) :
         parts \in {split(IF startsWith(search, "?") THEN From(search, 2)
                          ELSE search, "&")} })

\* a location as the browser parses it from its href
BrowserLoc(origin, pathname, search) ==
  [href |-> origin \o pathname \o search, origin |-> origin,
   hostname |-> From(origin, Len("https://") + 1),
   pathname |-> pathname, search |-> search]

\* the location object of the test harness: href and hostname only
StubLoc(hostname) ==
  [href |-> "https://" \o hostname \o "/test-page", origin |-> Undefined,
   hostname |-> hostname, pathname |-> Undefined, search |-> Undefined]

\* new URL(href): origin and pathname, which are parsed from the href even
\* when the location object itself is the stub
urlOrigin(l) == IF l.origin # Undefined THEN l.origin ELSE "https://" \o l.hostname
urlPathname(l) == IF l.pathname # Undefined THEN l.pathname ELSE "/test-page"
urlSearch(l) == IF l.search # Undefined THEN l.search ELSE ""

(***************************************************************************)
(* Elements, their attributes and the selectors the rules use.             *)
(***************************************************************************)
\* an element without attributes and text
Blank ==
  [tag |-> "div", text |-> "", cls |-> "", id |-> Absent, value |-> "",
   property |-> Absent, content |-> Absent, alt |-> Absent, src |-> Absent,
   href |-> Absent, itemscope |-> FALSE, itemtype |-> Absent,
   itemprop |-> Absent, dataQa |-> Absent, dataTs |-> Absent,
   dataStringifyText |-> Absent, dataChannelId |-> Absent]

Tag(name) == [Blank EXCEPT !.tag = name]
TextEl(name, txt) == [Blank EXCEPT !.tag = name, !.text = txt]

\* a page: the location, document.title and the document (tree and elements)
ElementsIn(pg, root) == Preorder(pg.kids, root)

\* the nodes a condition can be put to, and the element a node is; the
\* synthetic anchor is an empty div
Nodes(pg) == DOMAIN pg.kids \cup {dummyStart}
ElOf(pg, nd) == IF nd = dummyStart THEN Blank ELSE pg.el[nd]

\* document.querySelectorAll / element.querySelectorAll with the selector
\* given as the set of nodes it matches; the element itself is not a
\* candidate
querySelectorAll(pg, root, selector) ==
  SelectSeq(Tail(ElementsIn(pg, root)), LAMBDA n : n \in selector)

documentQuerySelectorAll(pg, selector) ==
  SelectSeq(ElementsIn(pg, HtmlEl), LAMBDA n : n \in selector)

First(s) == IF s = <<>> THEN Null ELSE s[1]

querySelector(pg, root, selector) ==
  First(querySelectorAll(pg, root, selector))

documentQuerySelector(pg, selector) ==
  First(documentQuerySelectorAll(pg, selector))

\* node.textContent: the text of the element and of its descendants
RECURSIVE textContent(_, _)
RECURSIVE textOfAll(_, _)
textOfAll(pg, s) ==
  IF s = <<>> THEN "" ELSE textContent(pg, s[1]) \o textOfAll(pg, Tail(s))
textContent(pg, n) == pg.el[n].text \o textOfAll(pg, pg.kids[n])

\* class selectors: .name matches a white-space separated token of class
hasClass(e, name) ==
  \E i \in 1..Len(split(e.cls, " ")) : split(e.cls, " ")[i] = name

\* a value as a template literal prints it
Shown(v) == IF v = Absent THEN "null" ELSE IF v = Undefined THEN "undefined" ELSE v

\* JavaScript truthiness of a string or null
Truthy(v) == v # Absent /\ v # Undefined /\ v # ""

(***************************************************************************)
(* findElement and getDatadogTimeRange                                     *)
(***************************************************************************)
Resolved(v) == [ok |-> TRUE, val |-> v]
Rejected(e) == [ok |-> FALSE, val |-> e]

\* async findElement(selector): one document.querySelector, no waiting
findElement(pg, selector, shown) ==
  LET element == documentQuerySelector(pg, selector)
  IN  IF element = Null
      THEN Rejected("Error: Element not found: " \o shown)
      ELSE Resolved(element)

\* getDatadogTimeRange that never finds a time range
getDatadogTimeRange_None(pg) == ""

\* lines 181-199
getDatadogTimeRange(pg) ==
  LET dateRangePicker ==
        documentQuerySelector(pg,
          {nd \in Nodes(pg) : hasClass(ElOf(pg, nd), "druids_time_date-range-picker")})
  IN  IF dateRangePicker = Null THEN ""
      ELSE LET input == querySelector(pg, dateRangePicker,
                                      {nd \in Nodes(pg) : ElOf(pg, nd).tag = "input"})
           IN  IF input # Null /\ Truthy(pg.el[input].value)
               THEN " (" \o pg.el[input].value \o ")"
               ELSE ""

(***************************************************************************)
(* The rules: isMatch.  A predicate evaluates to "true", "false" or        *)
(* "throw" (a TypeError on a property the location object lacks).          *)
(***************************************************************************)
B(x) == IF x THEN "true" ELSE "false"

\* a && b and a || b with JavaScript's left-to-right short circuit
AndJS(a, b) == IF a = "true" THEN b ELSE a
OrJS(a, b) == IF a = "false" THEN b ELSE a
NotJS(a) == IF a = "throw" THEN a ELSE B(a = "false")

hostIncludes(l, s) == B(includes(l.hostname, s))
hostIs(l, s) == B(l.hostname = s)
pathIncludes(l, s) ==
  IF l.pathname = Undefined THEN "throw" ELSE B(includes(l.pathname, s))

isDatadogHost(l) ==
  OrJS(hostIncludes(l, "datadoghq.com"), hostIncludes(l, "ddog-gov.com"))

isMatch(name, l) ==
  CASE name = "graphiteFigma" ->
         B(startsWith(l.href, "https://app.graphite.dev/github/pr/figma/figma"))
    [] name = "FigmaGithub" ->
         B(startsWith(l.href, "https://github.com/figma/figma/pull/"))
    [] name = "figmaDeploys" -> hostIs(l, "deploysv2.figma.com")
    [] name = "docsAndDesignTools" ->
         OrJS(AndJS(hostIncludes(l, "figma.com"),
                AndJS(NotJS(hostIncludes(l, "temporal-eks.figma.com")),
                      NotJS(hostIncludes(l, "temporal-eks.staging.figma.com")))),
              hostIncludes(l, "docs.google.com"))
    [] name = "dropboxPaper" -> hostIs(l, "paper.dropbox.com")
    [] name = "amazon" ->
         AndJS(hostIncludes(l, "amazon.com"), NotJS(hostIncludes(l, "aws")))
    [] name = "awsDocs" -> hostIs(l, "aws.amazon.com")
    [] name = "githubCommit" -> B(includes(l.href, "/commit/"))
    [] name = "datadogMonitor" ->
         AndJS(isDatadogHost(l), pathIncludes(l, "/monitors/"))
    [] name = "datadogNotebook" ->
         AndJS(hostIncludes(l, "datadoghq.com"), pathIncludes(l, "/notebook/"))
    [] name = "datadogLogs" ->
         AndJS(hostIncludes(l, "datadoghq.com"), pathIncludes(l, "/logs"))
    [] name = "datadogGeneral" -> isDatadogHost(l)
    [] name = "temporal" ->
         OrJS(hostIncludes(l, "temporal-eks.figma.com"),
              hostIncludes(l, "temporal-eks.staging.figma.com"))
    [] name = "notion" -> hostIncludes(l, "notion.so")
    [] name = "asana" -> hostIs(l, "app.asana.com")
    [] name = "greenhouse" -> B(includes(l.href, "/scorecards/"))
    [] name = "launchDarkly" -> hostIs(l, "app.launchdarkly.com")
    [] name = "goodreads" -> hostIs(l, "www.goodreads.com")
    [] name = "slack" -> hostIncludes(l, "slack.com")

(***************************************************************************)
(* The rules: getDocInfo.  An extractor's promise resolves with a DocInfo  *)
(* or rejects with an error.                                               *)
(***************************************************************************)
DocInfo(link, title) == [link |-> link, title |-> title]

TypeErr == "TypeError: Cannot read properties of undefined"

dropboxPaperGetDocInfo(pg) ==
  LET header == findElement(pg,
      {nd \in Nodes(pg) : hasClass(ElOf(pg, nd), "hp-header-title-wrapper")},
                            ".hp-header-title-wrapper")
  IN  IF ~header.ok THEN header
      ELSE Resolved(DocInfo(pg.loc.href,
                            textContent(pg, header.val) \o " (Paper)"))

amazonGetDocInfo(pg) ==
  LET productTitle == findElement(pg,
      {nd \in Nodes(pg) : ElOf(pg, nd).id = "productTitle"},
                                  "#productTitle")
      asin == findElement(pg,
          {nd \in Nodes(pg) : ElOf(pg, nd).id = "ASIN"}, "#ASIN")
  IN  IF ~productTitle.ok THEN productTitle
      ELSE IF ~asin.ok THEN asin
      ELSE Resolved(DocInfo("https://www.amazon.com/dp/" \o pg.el[asin.val].value,
                            textContent(pg, productTitle.val)))

awsDocsGetDocInfo(pg) ==
  LET i == lastSepWithRest(pg.title, " - ")
  IN  IF i > 0
      THEN Resolved(DocInfo(pg.loc.href,
             From(pg.title, i + 3) \o ": " \o Upto(pg.title, i - 1)))
      ELSE Resolved(DocInfo(pg.loc.href, pg.title))

docsAndDesignToolsGetDocInfo(pg) ==
  LET title == pg.title
      link == urlOrigin(pg.loc) \o urlPathname(pg.loc)
      lastEmDash == lastIndexOf(title, " " \o ENDASH \o " ")
      lastHyphen == lastIndexOf(title, " - ")
      lastSeparatorIndex == IF lastEmDash > lastHyphen THEN lastEmDash ELSE lastHyphen
  IN  IF lastSeparatorIndex > 0
      THEN Resolved(DocInfo(link,
             Upto(title, lastSeparatorIndex - 1) \o " (" \o
             From(title, lastSeparatorIndex + 3) \o ")"))
      ELSE Resolved(DocInfo(link, title))

\* title.replace(/^#\d+\s+/, "")
stripPRNumber(s) ==
  LET d == digitsAt(s, 2)
      w == spacesAt(s, 2 + d)
  IN  IF startsWith(s, "#") /\ d > 0 /\ w > 0 THEN From(s, 2 + d + w) ELSE s

\* title.replace(/\s+-\s+Graphite$/, "")
stripGraphite(s) ==
  IF ~endsWith(s, "Graphite") THEN s
  ELSE LET r1 == Upto(s, Len(s) - Len("Graphite"))
           w1 == trailingSpace(r1)
           r2 == Upto(r1, Len(r1) - w1)
           r3 == Upto(r2, Len(r2) - 1)
           w2 == trailingSpace(r3)
       IN  IF w1 > 0 /\ endsWith(r2, "-") /\ w2 > 0
           THEN Upto(r3, Len(r3) - w2) ELSE s

\* findElementByClassPrefix(prefix, tagName)
findElementByClassPrefix(pg, prefix, tagName) ==
  LET elements == documentQuerySelectorAll(pg,
                    {nd \in Nodes(pg) : ElOf(pg, nd).tag = tagName /\
                        includes(ElOf(pg, nd).cls, prefix)})
      withToken == SelectSeq(elements,
                    LAMBDA n : \E i \in 1..Len(split(pg.el[n].cls, " ")) :
                                 startsWith(split(pg.el[n].cls, " ")[i], prefix))
  IN  First(withToken)

graphiteFigmaGetDocInfo(pg) ==
  IF pg.loc.pathname = Undefined THEN Rejected(TypeErr)
  ELSE
  LET urlParts == split(pg.loc.pathname, "/")
      prNumber == IF Len(urlParts) >= 6 THEN urlParts[6] ELSE "undefined"
      title == stripGraphite(stripPRNumber(pg.title))
      codeDiffContainer == findElementByClassPrefix(pg, "CodeDiff_", "div")
      avatarImg ==
        IF codeDiffContainer = Null THEN Null
        ELSE querySelector(pg, codeDiffContainer,
               {nd \in Nodes(pg) : ElOf(pg, nd).tag = "img" /\
                   ElOf(pg, nd).src # Absent
                          /\ includes(ElOf(pg, nd).src, "avatars.githubusercontent.com")})
      author == IF avatarImg # Null /\ Truthy(pg.el[avatarImg].alt)
                THEN pg.el[avatarImg].alt ELSE ""
      link == "https://github.com/figma/figma/pull/" \o prNumber
  IN  Resolved(DocInfo(link,
        IF author # "" THEN "[PR] " \o title \o " (" \o author \o ")"
        ELSE "[PR] " \o title))

\* FigmaGithub.parsePRString:
\* /(?<title>.*) by (?<author>.*) · Pull Request #(?<pr>\d+) · (?<repo>.*)/
PullMark == " " \o MIDDOT \o " Pull Request #"
RepoMark == " " \o MIDDOT \o " "

pullsAfter(s, b) ==
  {q \in (b + 4)..Len(s) :
     /\ StartsWithAt(s, PullMark, q)
     /\ digitsAt(s, q + Len(PullMark)) > 0
     /\ StartsWithAt(s, RepoMark, q + Len(PullMark) + digitsAt(s, q + Len(PullMark)))}

parsePRString(prString) ==
  LET bys == {b \in 1..Len(prString) :
                StartsWithAt(prString, " by ", b) /\ pullsAfter(prString, b) # {}}
  IN  IF bys = {} THEN Rejected("Error: Invalid PR string")
      ELSE LET b == CHOOSE x \in bys : \A y \in bys : x >= y
               q == CHOOSE x \in pullsAfter(prString, b) :
                      \A y \in pullsAfter(prString, b) : x >= y
           IN  Resolved([title |-> Upto(prString, b - 1),
                         author |-> SubSeq(prString, b + 4, q - 1)])

FigmaGithubGetDocInfo(pg) ==
  LET parsed == parsePRString(pg.title)
  IN  IF ~parsed.ok THEN parsed
      ELSE Resolved(DocInfo(pg.loc.href,
             "[PR] " \o parsed.val.title \o " (" \o parsed.val.author \o ")"))

githubCommitGetDocInfo(pg) ==
  LET link == urlOrigin(pg.loc) \o urlPathname(pg.loc)
      i == lastIndexOf(pg.title, " " \o MIDDOT \o " ")
  IN  IF i > 0 THEN Resolved(DocInfo(link, Upto(pg.title, i - 1)))
      ELSE Resolved(DocInfo(link, pg.title))

datadogGeneralGetDocInfo(pg) ==
  Resolved(DocInfo(pg.loc.href, pg.title \o getDatadogTimeRange(pg)))

datadogNotebookGetDocInfo(pg) ==
  LET timeRange == getDatadogTimeRange(pg)
  IN  IF endsWith(pg.title, " | Datadog")
      THEN Resolved(DocInfo(pg.loc.href,
             Upto(pg.title, Len(pg.title) - Len(" | Datadog")) \o timeRange
               \o " (Datadog Notebook)"))
      ELSE Resolved(DocInfo(pg.loc.href, pg.title \o timeRange))

\* title.match(/^\(\d+\)\s*(.*)$/)
stripNotification(s) ==
  LET d == digitsAt(s, 2)
  IN  IF startsWith(s, "(") /\ d > 0 /\ StartsWithAt(s, ")", 2 + d)
      THEN From(s, 3 + d + spacesAt(s, 3 + d)) ELSE s

notionGetDocInfo(pg) ==
  Resolved(DocInfo(pg.loc.href, stripNotification(pg.title) \o " (Notion)"))

\* url.searchParams.set("focus", "true"); url.toString()
RECURSIVE joinWith(_, _)
joinWith(parts, sep) ==
  IF parts = <<>> THEN ""
  ELSE IF Len(parts) = 1 THEN parts[1]
  ELSE parts[1] \o sep \o joinWith(Tail(parts), sep)

isParam(part, name) == part = name \/ startsWith(part, name \o "=")

setFocusParam(l) ==
  LET base == urlOrigin(l) \o urlPathname(l)
      search == urlSearch(l)
      parts == IF search = "" \/ search = "?" THEN <<>>
               ELSE split(From(search, 2), "&")
      hits == {i \in 1..Len(parts) : isParam(parts[i], "focus")}
  IN  IF hits = {}
      THEN base \o "?" \o joinWith(parts \o <<"focus=true">>, "&")
      ELSE LET first == CHOOSE i \in hits : \A j \in hits : i <= j
               kept == [i \in 1..Len(parts) |->
                          IF i = first THEN "focus=true" ELSE parts[i]]
               idx == SeqOfSet({i \in 1..Len(parts) : i = first \/ i \notin hits})
           IN  base \o "?" \o joinWith([j \in 1..Len(idx) |-> kept[idx[j]]], "&")

\* content.match(/^● .+ - (.*)$/): the greedy .+ runs to the last " - "
stripTeamPrefix(content) ==
  LET at == {i \in 4..(Len(content) - 2) : StartsWithAt(content, " - ", i)}
  IN  IF startsWith(content, BULLET \o " ") /\ at # {}
      THEN From(content, (CHOOSE i \in at : \A j \in at : i >= j) + 3)
      ELSE content

asanaGetDocInfo(pg) ==
  LET link == setFocusParam(pg.loc)
  IN  IF endsWith(pg.title, " - Asana")
      THEN Resolved(DocInfo(link,
             stripTeamPrefix(Upto(pg.title, Len(pg.title) - Len(" - Asana")))
               \o " (Asana)"))
      ELSE Resolved(DocInfo(link, pg.title))

greenhouseGetDocInfo(pg) ==
  LET nameElement == findElement(pg,
      {nd \in Nodes(pg) : ElOf(pg, nd).tag = "h3" /\
          hasClass(ElOf(pg, nd), "name")},
                                 "h3.name")
      href == pg.loc.href
      link == IF endsWith(href, "/edit") THEN Upto(href, Len(href) - 5) ELSE href
  IN  IF ~nameElement.ok THEN nameElement
      ELSE Resolved(DocInfo(link,
             cleanupContent(textContent(pg, nameElement.val))
               \o " (Greenhouse Scorecard)"))

temporalGetDocInfo(pg) ==
  LET queryParam == searchParamsGet(pg.loc.search, "query")
  IN  IF Truthy(queryParam)
      THEN LET decodedQuery == decodeURIComponent(queryParam)
           IN  IF ~decodedQuery.ok THEN decodedQuery
               ELSE Resolved(DocInfo(pg.loc.href, decodedQuery.val \o " (Temporal)"))
      ELSE Resolved(DocInfo(pg.loc.href, pg.title \o " (Temporal)"))

\* s.replace(t, r) with a string pattern: the first occurrence only
replaceFirst(s, t, r) ==
  LET i == indexOf(s, t)
  IN  IF i = 0 THEN s ELSE Upto(s, i - 1) \o r \o From(s, i + Len(t))

LDQueryParams ==
  "env=production&env=staging&env=gov&env=development&env=devenv01&selected-env=production&activity=true"

launchDarklyGetDocInfo(pg) ==
  IF pg.loc.pathname = Undefined THEN Rejected(TypeErr)
  ELSE
  LET pathname == pg.loc.pathname
      flagsIndex == indexOf(pathname, "/projects/default/flags/")
      afterFlags == From(pathname, flagsIndex + Len("/projects/default/flags/"))
      nextSlash == indexOf(afterFlags, "/")
      flagName == IF nextSlash = 0 THEN afterFlags ELSE Upto(afterFlags, nextSlash - 1)
      newPath == replaceFirst(pathname, "/targeting", "/monitoring")
  IN  IF flagsIndex # 0
      THEN Resolved(DocInfo(pg.loc.origin \o newPath \o "?" \o LDQueryParams,
                            flagName \o " (LaunchDarkly)"))
      ELSE Resolved(DocInfo(pg.loc.href, pg.title \o " (LaunchDarkly)"))

figmaDeploysGetDocInfo(pg) ==
  IF pg.loc.pathname = Undefined THEN Rejected(TypeErr)
  ELSE
  LET pathParts == split(pg.loc.pathname, "/")
      chainId == pathParts[Len(pathParts)]
      h4Element == findElement(pg,
          {nd \in Nodes(pg) : ElOf(pg, nd).tag = "h4"}, "h4")
  IN  IF h4Element.ok
      THEN LET h4Text == textContent(pg, h4Element.val)
               title == IF h4Text # "" /\ ~includes(h4Text, "#" \o chainId)
                        THEN h4Text \o " #" \o chainId ELSE h4Text
           IN  Resolved(DocInfo(pg.loc.href, title \o " (Figma Deploys)"))
      ELSE Resolved(DocInfo(pg.loc.href,
             pg.title \o " #" \o chainId \o " (Figma Deploys)"))

(***************************************************************************)
(* datadogMonitor                                                          *)
(***************************************************************************)
\* title.match(/\{[^}]*:[^}]*\}/g): a tag starts at a "{" whose text up to
\* the next "}" holds a colon; matches do not overlap
RECURSIVE curlyTagsFrom(_, _)
curlyTagsFrom(s, i) ==
  IF i > Len(s) THEN <<>>
  ELSE IF CharAt(s, i) # "{" THEN curlyTagsFrom(s, i + 1)
  ELSE LET rest == From(s, i + 1)
           close == indexOf(rest, "}")
       IN  IF close # 0 /\ includes(Upto(rest, close - 1), ":")
           THEN <<SubSeq(s, i, i + close)>> \o curlyTagsFrom(s, i + close + 1)
           ELSE curlyTagsFrom(s, i + 1)

\* s.replace(new RegExp(`\\s*${escaped tag}\\s*`, 'g'), ' ')
RECURSIVE removeTagFrom(_, _, _)
removeTagFrom(s, tag, i) ==
  IF i > Len(s) THEN ""
  ELSE LET w == spacesAt(s, i)
       IN  IF StartsWithAt(s, tag, i + w)
           THEN " " \o removeTagFrom(s, tag,
                         i + w + Len(tag) + spacesAt(s, i + w + Len(tag)))
           ELSE CharAt(s, i) \o removeTagFrom(s, tag, i + 1)

RECURSIVE removeTags(_, _)
removeTags(s, tags) ==
  IF tags = <<>> THEN s
  ELSE removeTags(removeTagFrom(s, tags[1], 1), Tail(tags))

\* moveCurlyTags that puts a space before the tags wherever they stood
moveCurlyTags_AlwaysSpace(title) ==
  LET curlyTags == curlyTagsFrom(title, 1)
  IN  IF Len(curlyTags) = 0 THEN title
      ELSE trim(collapseSpace(removeTags(title, curlyTags))) \o " "
             \o joinWith(curlyTags, "")

\* lines 825-848: the curly tags move to the end of the title
moveCurlyTags(title) ==
  LET curlyTags == curlyTagsFrom(title, 1)
  IN  IF Len(curlyTags) = 0 THEN title
      ELSE LET wasAtEnd == endsWith(trim(title), curlyTags[Len(curlyTags)])
               cleanedTitle == trim(collapseSpace(removeTags(title, curlyTags)))
           IN  cleanedTitle \o (IF wasAtEnd THEN " " ELSE "")
                 \o joinWith(curlyTags, "")

\* fullText.replace(new RegExp(`^\\[${alertType}\\]\\s*`), "")
stripMarker(fullText, alertType) ==
  LET marker == "[" \o alertType \o "]"
  IN  IF startsWith(fullText, marker)
      THEN From(fullText, Len(marker) + 1 + spacesAt(fullText, Len(marker) + 1))
      ELSE fullText

hasTriggerCondition(fullText) ==
  includes(fullText, "[Triggered") \/ includes(fullText, "[Warn")

\* lines 776-783: the h1 text, "" when there is no h1
monitorH1Text(pg) ==
  LET h1Element == findElement(pg,
      {nd \in Nodes(pg) : ElOf(pg, nd).tag = "h1"}, "h1")
  IN  IF h1Element.ok THEN trim(textContent(pg, h1Element.val)) ELSE ""

\* monitorAlertElement that takes the first h3 with a trigger, whatever the
\* h1 text
monitorAlertElement_AnyTrigger(pg) ==
  First(SelectSeq(documentQuerySelectorAll(pg,
                    {nd \in Nodes(pg) : ElOf(pg, nd).tag = "h3"}),
                  LAMBDA n : hasTriggerCondition(textContent(pg, n))))

\* lines 786-814: the first h3 that qualifies, or null
monitorAlertElement(pg) ==
  LET h1Text == monitorH1Text(pg)
      h3Elements == documentQuerySelectorAll(pg,
          {nd \in Nodes(pg) : ElOf(pg, nd).tag = "h3"})
      qualifies(n) ==
        /\ (h1Text # "" => includes(textContent(pg, n), h1Text))
        /\ hasTriggerCondition(textContent(pg, n))
  IN  First(SelectSeq(h3Elements, qualifies))

\* datadogMonitor.getDocInfo without the h1 branch
datadogMonitorGetDocInfo_NoH1(pg) ==
  LET timeRange == getDatadogTimeRange(pg)
      alertElement == monitorAlertElement(pg)
  IN  IF alertElement # Null
      THEN LET fullText == textContent(pg, alertElement)
               alertType == IF includes(fullText, "[Triggered")
                            THEN "Triggered" ELSE "Warn"
               title == moveCurlyTags(stripMarker(fullText, alertType))
           IN  Resolved(DocInfo(pg.loc.href, title \o timeRange))
      ELSE Resolved(DocInfo(pg.loc.href, pg.title \o timeRange))

datadogMonitorGetDocInfo(pg) ==
  LET timeRange == getDatadogTimeRange(pg)
      h1Text == monitorH1Text(pg)
      alertElement == monitorAlertElement(pg)
  IN  IF alertElement # Null
      THEN LET fullText == textContent(pg, alertElement)
               alertType == IF includes(fullText, "[Triggered")
                            THEN "Triggered" ELSE "Warn"
               title == moveCurlyTags(stripMarker(fullText, alertType))
           IN  Resolved(DocInfo(pg.loc.href, title \o timeRange))
      ELSE IF h1Text # ""
           THEN Resolved(DocInfo(pg.loc.href, h1Text \o timeRange))
           ELSE Resolved(DocInfo(pg.loc.href, pg.title \o timeRange))

(***************************************************************************)
(* datadogLogs                                                             *)
(***************************************************************************)
\* createDirectTextCondition(regex), the regex given as the set of nodes
\* whose own text it matches; the empty dummy element has no text
createDirectTextCondition(pg, regex) == [n \in Nodes(pg) |-> B(n \in regex)]

\* a condition on the element, given as the set of nodes it holds for
elementCondition(pg, holds) == [n \in Nodes(pg) |-> B(n \in holds)]

logMessageSearch(pg) ==
  findFirstInWholeDFS(pg.kids,
    createDirectTextCondition(pg,
        {nd \in Nodes(pg) : includes(ElOf(pg, nd).text, "Log Message")}))

datadogLogsGetDocInfo(pg) ==
  LET timeRange == getDatadogTimeRange(pg)
      logMessageElement == logMessageSearch(pg).res
      codeElement ==
        IF logMessageElement = Null THEN Null
        ELSE findNextElementDFS(pg.kids,
               elementCondition(pg,
                   {nd \in Nodes(pg) : ElOf(pg, nd).tag = "code"}),
               logMessageElement).res
      queryParam == searchParamsGet(pg.loc.search, "query")
  IN  IF codeElement # Null
      THEN Resolved(DocInfo(pg.loc.href,
             trim(collapseSpace(textContent(pg, codeElement)))
               \o timeRange \o " (Logs)"))
      ELSE IF Truthy(queryParam)
      THEN LET decodedQuery == decodeURIComponent(queryParam)
           IN  IF ~decodedQuery.ok THEN decodedQuery
               ELSE Resolved(DocInfo(pg.loc.href,
                      decodedQuery.val \o timeRange \o " (Logs)"))
      ELSE Resolved(DocInfo(pg.loc.href, pg.title \o timeRange \o " (Logs)"))

(***************************************************************************)
(* Content accessors: Open Graph and schema.org.                           *)
(***************************************************************************)
getMetaContent(pg, property) ==
  LET metaElement == documentQuerySelector(pg,
                       {nd \in Nodes(pg) : ElOf(pg, nd).tag = "meta" /\
                           ElOf(pg, nd).property = property})
  IN  IF metaElement = Null THEN Absent ELSE pg.el[metaElement].content

\* element.parentElement
parentElement(pg, n) == parentNode(pg.kids, n)

\* element.closest(selector): the element itself or its nearest ancestor
RECURSIVE closest(_, _, _)
closest(pg, n, isItemScope) ==
  IF n = Null THEN Null
  ELSE IF pg.el[n].itemscope = isItemScope THEN n
  ELSE closest(pg, parentElement(pg, n), isItemScope)

SchemaPrefix == "http://schema.org/"

itemElementOf(pg, itemType) ==
  documentQuerySelector(pg,
      {nd \in Nodes(pg) : ElOf(pg, nd).itemscope /\
          ElOf(pg, nd).itemtype = itemType})

\* directlyUnder that takes the first candidate, whatever its item scope
directlyUnder_AnyScope(pg, candidates, itemElement) == First(candidates)

\* the first of the candidates whose closest [itemscope] is the item itself
directlyUnder(pg, candidates, itemElement) ==
  First(SelectSeq(candidates, LAMBDA n : closest(pg, n, TRUE) = itemElement))

OrNull(v) == IF Truthy(v) THEN v ELSE Absent

getSchemaOrgContent(pg, itemType, property) ==
  LET itemElement == itemElementOf(pg, itemType)
  IN  IF itemElement = Null THEN Absent
      ELSE
      LET metaElement == directlyUnder(pg,
            querySelectorAll(pg, itemElement,
              {nd \in Nodes(pg) : ElOf(pg, nd).tag = "meta" /\
                  ElOf(pg, nd).itemprop = property}), itemElement)
          linkElement == directlyUnder(pg,
            querySelectorAll(pg, itemElement,
              {nd \in Nodes(pg) : ElOf(pg, nd).tag = "link" /\
                  ElOf(pg, nd).itemprop = property}), itemElement)
          element == directlyUnder(pg,
            querySelectorAll(pg, itemElement,
              {nd \in Nodes(pg) : ElOf(pg, nd).itemprop = property}), itemElement)
      IN  IF metaElement # Null THEN pg.el[metaElement].content
          ELSE IF linkElement # Null
               THEN IF Truthy(pg.el[linkElement].href)
                    THEN pg.el[linkElement].href
                    ELSE pg.el[linkElement].content
          ELSE IF element # Null THEN OrNull(trim(textContent(pg, element)))
          ELSE Absent

isPersonItem(e, tagName, authorProperty) ==
  /\ e.tag = tagName /\ e.itemprop = authorProperty /\ e.itemscope
  /\ e.itemtype = SchemaPrefix \o "Person"

getSchemaOrgPersonName(pg, itemType, authorProperty) ==
  LET itemElement == itemElementOf(pg, itemType)
  IN  IF itemElement = Null THEN Absent
      ELSE
      LET authorSpan == querySelector(pg, itemElement,
                          {nd \in Nodes(pg) : isPersonItem(ElOf(pg, nd), "span", authorProperty)})
          authorLink == IF authorSpan = Null THEN Null
                        ELSE querySelector(pg, authorSpan,
                               {nd \in Nodes(pg) : ElOf(pg, nd).tag = "link" /\
                                   ElOf(pg, nd).itemprop = "name"})
          authorDiv == querySelector(pg, itemElement,
                          {nd \in Nodes(pg) : isPersonItem(ElOf(pg, nd), "div", authorProperty)})
          authorMeta == IF authorDiv = Null THEN Null
                        ELSE querySelector(pg, authorDiv,
                               {nd \in Nodes(pg) : ElOf(pg, nd).tag = "meta" /\
                                   ElOf(pg, nd).itemprop = "name"})
      IN  IF authorLink # Null THEN pg.el[authorLink].content
          ELSE IF authorMeta # Null THEN pg.el[authorMeta].content
          ELSE getSchemaOrgContent(pg, itemType, authorProperty)

\* the type list with WebPage in front
TitleTypes_WebPageFirst ==
  <<"WebPage", "VideoObject", "Article", "NewsArticle", "BlogPosting",
    "CreativeWork", "Thing">>

\* lines 496-504: commonTypes of getSchemaOrgTitle
TitleTypes ==
  <<"VideoObject", "Article", "NewsArticle", "BlogPosting", "WebPage",
    "CreativeWork", "Thing">>
AuthorTypes ==
  <<"VideoObject", "Article", "NewsArticle", "BlogPosting", "CreativeWork">>

\* lines 506-516: the first type with a headline or a name
RECURSIVE schemaTitleFrom(_, _)
schemaTitleFrom(pg, i) ==
  IF i > Len(TitleTypes) THEN Absent
  ELSE IF Truthy(getSchemaOrgContent(pg, SchemaPrefix \o TitleTypes[i], "headline"))
  THEN getSchemaOrgContent(pg, SchemaPrefix \o TitleTypes[i], "headline")
  ELSE IF Truthy(getSchemaOrgContent(pg, SchemaPrefix \o TitleTypes[i], "name"))
  THEN getSchemaOrgContent(pg, SchemaPrefix \o TitleTypes[i], "name")
  ELSE schemaTitleFrom(pg, i + 1)

getSchemaOrgTitle(pg) == schemaTitleFrom(pg, 1)

\* lines 535-542: the first type with a url
RECURSIVE schemaUrlFrom(_, _)
schemaUrlFrom(pg, i) ==
  IF i > Len(TitleTypes) THEN Absent
  ELSE IF Truthy(getSchemaOrgContent(pg, SchemaPrefix \o TitleTypes[i], "url"))
  THEN getSchemaOrgContent(pg, SchemaPrefix \o TitleTypes[i], "url")
  ELSE schemaUrlFrom(pg, i + 1)

getSchemaOrgUrl(pg) == schemaUrlFrom(pg, 1)

\* lines 559-566: the first type with an author
RECURSIVE schemaAuthorFrom(_, _)
schemaAuthorFrom(pg, i) ==
  IF i > Len(AuthorTypes) THEN Absent
  ELSE IF Truthy(getSchemaOrgPersonName(pg, SchemaPrefix \o AuthorTypes[i], "author"))
  THEN getSchemaOrgPersonName(pg, SchemaPrefix \o AuthorTypes[i], "author")
  ELSE schemaAuthorFrom(pg, i + 1)

getSchemaOrgAuthor(pg) == schemaAuthorFrom(pg, 1)

(***************************************************************************)
(* The generic resolver: getTitle and getUrl.                              *)
(***************************************************************************)
ServiceSuffixes ==
  <<" - Google Maps", " - Google Search", " - Bing Maps", " - Apple Maps">>

\* lines 305-324: a known service suffix of the title put in parentheses
serviceForm(documentTitle) ==
  LET hits == {i \in 1..Len(ServiceSuffixes) :
                 endsWith(documentTitle, ServiceSuffixes[i])}
  IN  IF hits = {} THEN documentTitle
      ELSE LET suffix == ServiceSuffixes[CHOOSE i \in hits : \A j \in hits : i <= j]
           IN  Upto(documentTitle, Len(documentTitle) - Len(suffix))
                 \o " (" \o From(suffix, 4) \o ")"

\* lines 300-326: the fallback to document.title
documentTitleFallback(pg) ==
  TheOne({serviceForm(documentTitle) :
            documentTitle \in {cleanupContent(pg.title)}})

\* lines 238-283: the Open Graph branch
ogTitleBranch(pg, ogTitle) ==
  LET cleaned == cleanupContent(ogTitle)
      colonIndex == indexOf(cleaned, ":")
      cleanedTitle ==
        IF getMetaContent(pg, "og:type") = "books.book" /\ colonIndex # 0
        THEN trim(Upto(cleaned, colonIndex - 1)) ELSE cleaned
      sep == lastSepWithRest(cleanedTitle, " - ")
      schemaAuthor == getSchemaOrgAuthor(pg)
  IN  IF includes(pg.loc.hostname, "youtube.com")
         \/ includes(pg.loc.hostname, "youtube.")
      THEN IF sep # 0
           THEN trim(Upto(cleanedTitle, sep - 1)) \o " ("
                  \o trim(From(cleanedTitle, sep + 3)) \o ")"
           ELSE IF Truthy(schemaAuthor)
                THEN cleanedTitle \o " (" \o schemaAuthor \o ")"
                ELSE cleanedTitle
      ELSE cleanedTitle

\* getTitle that asks schema.org before Open Graph
getTitle_SchemaFirst(pg) ==
  LET ogTitle == getMetaContent(pg, "og:title")
      schemaTitle == getSchemaOrgTitle(pg)
      schemaAuthor == getSchemaOrgAuthor(pg)
  IN  IF Truthy(schemaTitle)
      THEN IF Truthy(schemaAuthor)
           THEN cleanupContent(schemaTitle) \o " ("
                  \o cleanupContent(schemaAuthor) \o ")"
           ELSE cleanupContent(schemaTitle)
      ELSE IF Truthy(ogTitle) THEN ogTitleBranch(pg, ogTitle)
      ELSE documentTitleFallback(pg)

\* lines 236-327
getTitle(pg) ==
  LET ogTitle == getMetaContent(pg, "og:title")
      schemaTitle == getSchemaOrgTitle(pg)
      schemaAuthor == getSchemaOrgAuthor(pg)
  IN  IF Truthy(ogTitle) THEN ogTitleBranch(pg, ogTitle)
      ELSE IF Truthy(schemaTitle)
           THEN IF Truthy(schemaAuthor)
                THEN cleanupContent(schemaTitle) \o " ("
                       \o cleanupContent(schemaAuthor) \o ")"
                ELSE cleanupContent(schemaTitle)
      ELSE documentTitleFallback(pg)

getUrl(pg) ==
  LET ogUrl == getMetaContent(pg, "og:url")
      schemaUrl == getSchemaOrgUrl(pg)
  IN  IF Truthy(ogUrl) THEN cleanupContent(ogUrl)
      ELSE IF Truthy(schemaUrl) THEN cleanupContent(schemaUrl)
      ELSE pg.loc.href

goodreadsGetDocInfo(pg) ==
  LET contributorLinks == documentQuerySelectorAll(pg,
                            {nd \in Nodes(pg) : hasClass(ElOf(pg, nd), "ContributorLink")})
      authorName == IF Len(contributorLinks) > 0
                    THEN trim(textContent(pg, contributorLinks[1])) ELSE ""
  IN  Resolved(DocInfo(getUrl(pg),
        IF authorName # "" THEN getTitle(pg) \o " by " \o authorName
        ELSE getTitle(pg)))

(***************************************************************************)
(* slack                                                                   *)
(***************************************************************************)
findFirstWithDirectTextMatch(pg, regex) ==
  findFirstInWholeDFS(pg.kids, createDirectTextCondition(pg, regex))

RECURSIVE findInParentChainFrom(_, _, _)
findInParentChainFrom(pg, currentElement, hits) ==
  IF currentElement = Null THEN Null
  ELSE LET found == First(SelectSeq(Tail(ElementsIn(pg, currentElement)),
                                    LAMBDA n : n \in hits))
       IN  IF found # Null THEN found
           ELSE findInParentChainFrom(pg, parentElement(pg, currentElement), hits)

\* findInParentChain that looks under the start element only
findInParentChain_StartOnly(pg, startElement, selector) ==
  First(SelectSeq(Tail(ElementsIn(pg, startElement)),
                  LAMBDA n : n \in selector))

findInParentChain(pg, startElement, selector) ==
  findInParentChainFrom(pg, startElement, selector)

(***************************************************************************)
(* The harness of findInParentChain: any tree, any set of elements the     *)
(* selector matches, any start element.                                    *)
(***************************************************************************)
Selections(ids) ==
  { [n \in ids \cup {dummyStart} |-> IF n \in M THEN "true" ELSE "false"] :
      M \in SUBSET ids }

InitChain ==
  /\ kids \in Trees
  /\ kids0 = kids
  /\ cond \in Selections(DOMAIN kids)
  /\ pcD = "idle"
  /\ startEl = Null
  /\ ret = [res |-> Null, exc |-> FALSE]
  /\ ParkedText
  /\ ParkedDispatch

CallFindInParentChain ==
  /\ pcD = "idle"
  /\ \E s \in Elements(kids) :
       /\ startEl' = s
       /\ ret' = [res |-> findInParentChain([kids |-> kids], s,
                                            {n \in DOMAIN kids : cond[n] = "true"}),
                  exc |-> FALSE]
  /\ pcD' = "findInChain"
  /\ UNCHANGED <<kids, kids0, cond, txtVars, disVars>>

ReturnChain ==
  /\ pcD = "findInChain"
  /\ pcD' = "idle"
  /\ startEl' = Null
  /\ ret' = [res |-> Null, exc |-> FALSE]
  /\ UNCHANGED <<kids, kids0, cond, txtVars, disVars>>

NextChain == CallFindInParentChain \/ ReturnChain

SpecChain == InitChain /\ [][NextChain]_vars

IsUpperOrDigit(ch) ==
  \/ IsDigit(ch)
  \/ ch \in {"A","B","C","D","E","F","G","H","I","J","K","L","M","N","O","P",
             "Q","R","S","T","U","V","W","X","Y","Z"}

RECURSIVE upperRunAt(_, _)
upperRunAt(s, i) ==
  IF i <= Len(s) /\ IsUpperOrDigit(CharAt(s, i)) THEN 1 + upperRunAt(s, i + 1) ELSE 0

\* href.match(/\/archives\/([C][A-Z0-9]+)\//)[1], or null
RECURSIVE channelIdFrom(_, _)
channelIdFrom(href, i) ==
  LET mark == "/archives/C"
      run == upperRunAt(href, i + Len(mark))
  IN  IF i > Len(href) THEN Absent
      ELSE IF /\ StartsWithAt(href, mark, i) /\ run > 0
              /\ CharAt(href, i + Len(mark) + run) = "/"
           THEN SubSeq(href, i + Len(mark) - 1, i + Len(mark) + run - 1)
           ELSE channelIdFrom(href, i + 1)

\* channelText.replace(/^\s*Message\s+/, "").trim()
stripMessagePrefix(channelText) ==
  LET w == spacesAt(channelText, 1)
      after == w + Len("Message") + 1
  IN  IF StartsWithAt(channelText, "Message", w + 1)
         /\ spacesAt(channelText, after) > 0
      THEN trim(From(channelText, after + spacesAt(channelText, after)))
      ELSE trim(channelText)

channelNameOf(channelText) ==
  IF channelText # "" THEN stripMessagePrefix(channelText) ELSE ""
channelTextOf(pg, channelElement) ==
  IF channelElement = Null THEN "" ELSE trim(textContent(pg, channelElement))
channelElementOf(pg, channelId) ==
  IF channelId = Absent THEN Null
  ELSE documentQuerySelector(pg,
      {nd \in Nodes(pg) : ElOf(pg, nd).dataChannelId = channelId})
slackChannelName(pg, href) ==
  channelNameOf(channelTextOf(pg, channelElementOf(pg, channelIdFrom(href, 1))))

(***************************************************************************)
(* The date of a Slack message: Intl.DateTimeFormat("en-US") with the zone *)
(* America/New_York, computed from the seconds of data-ts.                 *)
(***************************************************************************)
DigitValue(ch) ==
  CASE ch = "0" -> 0 [] ch = "1" -> 1 [] ch = "2" -> 2 [] ch = "3" -> 3
    [] ch = "4" -> 4 [] ch = "5" -> 5 [] ch = "6" -> 6 [] ch = "7" -> 7
    [] ch = "8" -> 8 [] ch = "9" -> 9

RECURSIVE digitsValue(_, _)
digitsValue(s, n) ==
  IF n = 0 THEN 0 ELSE 10 * digitsValue(s, n - 1) + DigitValue(CharAt(s, n))

\* parseFloat(dataTs), whole seconds; NaN when the text starts with no digit
parseSeconds(dataTs) ==
  LET w == spacesAt(dataTs, 1)
      d == digitsAt(dataTs, w + 1)
  IN  IF d = 0 THEN Null ELSE digitsValue(SubSeq(dataTs, w + 1, w + d), d)

DigitChars == <<"0", "1", "2", "3", "4", "5", "6", "7", "8", "9">>
RECURSIVE toString(_)
toString(n) ==
  IF n < 10 THEN DigitChars[n + 1]
  ELSE toString(n \div 10) \o DigitChars[(n % 10) + 1]

MonthNames ==
  <<"Jan", "Feb", "Mar", "Apr", "May", "Jun", "Jul", "Aug", "Sep", "Oct",
    "Nov", "Dec">>

\* the civil date of a day number counted from 1970-01-01
civilOf(era, yoe, doy, mp) ==
  [year |-> yoe + era * 400 + (IF mp >= 10 THEN 1 ELSE 0),
   month |-> IF mp < 10 THEN mp + 3 ELSE mp - 9,
   day |-> doy - (153 * mp + 2) \div 5 + 1]
civilOfDoy(era, yoe, doy) == civilOf(era, yoe, doy, (5 * doy + 2) \div 153)
civilOfYoe(era, doe, yoe) ==
  civilOfDoy(era, yoe, doe - (365 * yoe + yoe \div 4 - yoe \div 100))
civilOfDoe(era, doe) ==
  civilOfYoe(era, doe,
    (doe - doe \div 1460 + doe \div 36524 - doe \div 146096) \div 365)
civilOfShifted(z) == civilOfDoe(z \div 146097, z % 146097)
civilFromDays(z) == civilOfShifted(z + 719468)

daysOfYoe(era, yoe, doy) ==
  era * 146097 + yoe * 365 + yoe \div 4 - yoe \div 100 + doy - 719468
daysOfYear(y, m, d) ==
  daysOfYoe(y \div 400, y % 400,
            (153 * (IF m > 2 THEN m - 3 ELSE m + 9) + 2) \div 5 + d - 1)
daysFromCivil(y, m, d) == daysOfYear(IF m <= 2 THEN y - 1 ELSE y, m, d)

\* the day number of the n-th Sunday of a month (1970-01-01 was a Thursday)
sundayFrom(first, n) == first + ((7 - ((first + 4) % 7)) % 7) + 7 * (n - 1)
nthSunday(year, month, n) == sundayFrom(daysFromCivil(year, month, 1), n)

\* daylight saving time of New York: from the second Sunday of March,
\* 07:00 UTC, to the first Sunday of November, 06:00 UTC
isDaylightIn(secs, year) ==
  /\ secs >= nthSunday(year, 3, 2) * 86400 + 7 * 3600
  /\ secs < nthSunday(year, 11, 1) * 86400 + 6 * 3600
isDaylightTime(secs) == isDaylightIn(secs, civilFromDays(secs \div 86400).year)

formatParts(date, hour, minute) ==
  MonthNames[date.month] \o " " \o toString(date.day) \o ", "
    \o toString(date.year) \o ", "
    \o toString(IF hour % 12 = 0 THEN 12 ELSE hour % 12) \o ":"
    \o (IF minute < 10 THEN "0" ELSE "") \o toString(minute)
    \o (IF hour < 12 THEN " AM" ELSE " PM")
formatLocal(local) ==
  formatParts(civilFromDays(local \div 86400), (local % 86400) \div 3600,
              (local % 3600) \div 60)
formatDate(secs) ==
  formatLocal(secs - (IF isDaylightTime(secs) THEN 4 ELSE 5) * 3600)

\* lines 1281-1304: formatter.format throws a RangeError for an invalid date
dateStringOf(secs) ==
  IF secs = Null THEN Rejected("RangeError")
  ELSE Resolved(formatDate(secs) \o " ET")
slackDateString(dataTs) ==
  IF ~Truthy(dataTs) THEN Resolved("") ELSE dateStringOf(parseSeconds(dataTs))

\* element.innerHTML: the markup of the children, attributes left out
RECURSIVE innerHTML(_, _)
RECURSIVE outerHTMLOfAll(_, _)
outerHTMLOfAll(pg, s) ==
  IF s = <<>> THEN ""
  ELSE "<" \o pg.el[s[1]].tag \o ">" \o innerHTML(pg, s[1])
         \o "</" \o pg.el[s[1]].tag \o ">" \o outerHTMLOfAll(pg, Tail(s))
innerHTML(pg, n) == pg.el[n].text \o outerHTMLOfAll(pg, pg.kids[n])

\* the Slack record without its text field
SlackInfo_NoText(link, title, html, sender, dateString, channelName) ==
  [link |-> link, title |-> title, html |-> html,
   sender |-> sender, dateString |-> dateString, channelName |-> channelName]

\* lines 1336-1344: the record of a Slack message
SlackInfo(link, title, html, sender, dateString, channelName) ==
  [link |-> link, title |-> title, html |-> html, text |-> title,
   sender |-> sender, dateString |-> dateString, channelName |-> channelName]

isMessageContent(e) ==
  e.tag = "div" /\ e.dataQa \in {"message_content", "message-text"}

\* lines 1163-1178: the anchor of the message, or null
orAlsoSent(pg, saved) ==
  IF saved # Null THEN saved
  ELSE findFirstWithDirectTextMatch(pg,
         {nd \in Nodes(pg) : ElOf(pg, nd).text = "Also sent to the channel"}).res
slackReferenceElement(pg) ==
  orAlsoSent(pg, findFirstWithDirectTextMatch(pg,
                   {nd \in Nodes(pg) : startsWith(ElOf(pg, nd).text, "Saved for later")}).res)

\* lines 1190-1201: the message container after the anchor, or null
containerAfter(pg, referenceElement) ==
  IF referenceElement = Null THEN Null
  ELSE findNextElementDFS(pg.kids,
         elementCondition(pg,
             {nd \in Nodes(pg) : isMessageContent(ElOf(pg, nd))}),
         referenceElement).res
slackMessageContentDiv(pg) == containerAfter(pg, slackReferenceElement(pg))

\* lines 1229-1239: the timestamp link, or null
orAnyTimestamp(pg, messageContentDiv, specific) ==
  IF specific # Null THEN specific
  ELSE findInParentChain(pg, messageContentDiv,
         {nd \in Nodes(pg) : ElOf(pg, nd).tag = "a" /\
             ElOf(pg, nd).dataTs # Absent})
slackTimestampLink(pg, messageContentDiv) ==
  orAnyTimestamp(pg, messageContentDiv,
    findInParentChain(pg, messageContentDiv,
      {nd \in Nodes(pg) : ElOf(pg, nd).tag = "a" /\
          hasClass(ElOf(pg, nd), "c-timestamp") /\ ElOf(pg, nd).dataTs # Absent}))

\* lines 1216-1223
senderOf(pg, senderSpan) ==
  IF senderSpan # Null /\ Truthy(pg.el[senderSpan].dataStringifyText)
  THEN pg.el[senderSpan].dataStringifyText ELSE ""
slackSender(pg, messageContentDiv) ==
  senderOf(pg, querySelector(pg, messageContentDiv,
                             {nd \in Nodes(pg) : ElOf(pg, nd).dataQa = "message_sender"}))

\* lines 1247-1252
slackHref(pg, timestampLink) ==
  IF timestampLink # Null /\ Truthy(pg.el[timestampLink].href)
  THEN pg.el[timestampLink].href ELSE pg.loc.href

\* lines 1308-1327: the message as markup and as text
messageHtmlOf(pg, messageContentDiv, messageTextDiv) ==
  IF messageTextDiv # Null THEN innerHTML(pg, messageTextDiv)
  ELSE innerHTML(pg, messageContentDiv)
messageTextOf(pg, messageContentDiv, messageTextDiv) ==
  IF messageTextDiv # Null THEN trim(textContent(pg, messageTextDiv))
  ELSE textContent(pg, messageContentDiv)
slackMessageTextDiv(pg, messageContentDiv) ==
  querySelector(pg, messageContentDiv,
      {nd \in Nodes(pg) : ElOf(pg, nd).dataQa = "message-text"})

\* lines 1336-1344
slackRecord(href, messageText, messageHtml, sender, dateString, channelName) ==
  IF ~dateString.ok THEN dateString
  ELSE Resolved(SlackInfo(href, messageText, messageHtml, sender,
                          dateString.val, channelName))

slackWithLink(pg, messageContentDiv, messageTextDiv, timestampLink, href) ==
  slackRecord(href,
    messageTextOf(pg, messageContentDiv, messageTextDiv),
    messageHtmlOf(pg, messageContentDiv, messageTextDiv),
    slackSender(pg, messageContentDiv),
    IF timestampLink = Null THEN Resolved("")
    ELSE slackDateString(pg.el[timestampLink].dataTs),
    IF timestampLink = Null THEN "" ELSE slackChannelName(pg, href))

slackWithContainer(pg, messageContentDiv, timestampLink) ==
  slackWithLink(pg, messageContentDiv,
                slackMessageTextDiv(pg, messageContentDiv), timestampLink,
                slackHref(pg, timestampLink))

\* lines 1160-1344, the body of the try block
slackFrom(pg, messageContentDiv) ==
  IF messageContentDiv = Null THEN Rejected("Error")
  ELSE slackWithContainer(pg, messageContentDiv,
                          slackTimestampLink(pg, messageContentDiv))
slackTry(pg) == slackFrom(pg, slackMessageContentDiv(pg))

\* a catch block that throws the exception again
slackCatch_Rethrows(pg, attempt) == attempt

\* lines 1345-1351: the catch block
slackCatch(pg, attempt) ==
  IF attempt.ok THEN attempt
  ELSE Resolved(DocInfo(pg.loc.href, pg.title \o " (Slack)"))
slackGetDocInfo(pg) == slackCatch(pg, slackTry(pg))

(***************************************************************************)
(* The dispatcher: the rule list of getDocInfo and what a rule's           *)
(* extractor answers and leaves behind.                                    *)
(***************************************************************************)
\* the list with githubCommit at its end
Rules_CommitLast ==
  <<"graphiteFigma", "FigmaGithub", "figmaDeploys", "docsAndDesignTools",
    "dropboxPaper", "amazon", "awsDocs", "datadogMonitor",
    "datadogNotebook", "datadogLogs", "datadogGeneral", "temporal", "notion",
    "asana", "greenhouse", "launchDarkly", "goodreads", "slack", "githubCommit">>

Rules ==
  <<"graphiteFigma", "FigmaGithub", "figmaDeploys", "docsAndDesignTools",
    "dropboxPaper", "amazon", "awsDocs", "githubCommit", "datadogMonitor",
    "datadogNotebook", "datadogLogs", "datadogGeneral", "temporal", "notion",
    "asana", "greenhouse", "launchDarkly", "goodreads", "slack">>

ruleGetDocInfo(name, pg) ==
  CASE name = "graphiteFigma" -> graphiteFigmaGetDocInfo(pg)
    [] name = "FigmaGithub" -> FigmaGithubGetDocInfo(pg)
    [] name = "figmaDeploys" -> figmaDeploysGetDocInfo(pg)
    [] name = "docsAndDesignTools" -> docsAndDesignToolsGetDocInfo(pg)
    [] name = "dropboxPaper" -> dropboxPaperGetDocInfo(pg)
    [] name = "amazon" -> amazonGetDocInfo(pg)
    [] name = "awsDocs" -> awsDocsGetDocInfo(pg)
    [] name = "githubCommit" -> githubCommitGetDocInfo(pg)
    [] name = "datadogMonitor" -> datadogMonitorGetDocInfo(pg)
    [] name = "datadogNotebook" -> datadogNotebookGetDocInfo(pg)
    [] name = "datadogLogs" -> datadogLogsGetDocInfo(pg)
    [] name = "datadogGeneral" -> datadogGeneralGetDocInfo(pg)
    [] name = "temporal" -> temporalGetDocInfo(pg)
    [] name = "notion" -> notionGetDocInfo(pg)
    [] name = "asana" -> asanaGetDocInfo(pg)
    [] name = "greenhouse" -> greenhouseGetDocInfo(pg)
    [] name = "launchDarkly" -> launchDarklyGetDocInfo(pg)
    [] name = "goodreads" -> goodreadsGetDocInfo(pg)
    [] name = "slack" -> slackGetDocInfo(pg)

\* the document after the extractor has run: only the rules that search
\* with findFirstInWholeDFS touch it
slackDocAfter(pg) ==
  LET saved == findFirstWithDirectTextMatch(pg,
                 {nd \in Nodes(pg) : startsWith(ElOf(pg, nd).text, "Saved for later")})
  IN  IF saved.res # Null THEN saved.doc
      ELSE findFirstInWholeDFS(saved.doc,
             createDirectTextCondition(pg,
               {nd \in Nodes(pg) : ElOf(pg, nd).text = "Also sent to the channel"})).doc

documentAfter(name, pg) ==
  CASE name = "datadogLogs" -> logMessageSearch(pg).doc
    [] name = "slack" -> slackDocAfter(pg)
    [] OTHER -> pg.kids

\* line 1402: if (isMatch)
matched_Always(m) == TRUE
matched(m) == m = "true"

\* lines 1409-1412: catch (error) { ...; continue; }
catchContinue_Rethrows(i) == [pc |-> "rejected", ruleIdx |-> i]
catchContinue_SkipsNext(i) == [pc |-> "loop", ruleIdx |-> i + 2]
catchContinue_Retries(i) == [pc |-> "loop", ruleIdx |-> i]
catchContinue(i) == [pc |-> "loop", ruleIdx |-> i + 1]

\* line 1417: the record of the generic resolver
fallbackResult_RawTitle(pg) == DocInfo(getUrl(pg), pg.title)
fallbackResult(pg) == DocInfo(getUrl(pg), getTitle(pg))

(***************************************************************************)
(* The pages getDocInfo is called on.                                      *)
(***************************************************************************)
\* a document html(head, body) with further elements, given with parents
MkDoc(par, els) ==
  [kids |-> TreeOf(par),
   el |-> [n \in {HtmlEl, HeadEl, BodyEl} \cup DOMAIN par |->
             IF n = HtmlEl THEN Tag("html")
             ELSE IF n = HeadEl THEN Tag("head")
             ELSE IF n = BodyEl THEN Tag("body")
             ELSE els[n]]]

DocEmpty == MkDoc(<<>>, <<>>)

DocMonitor ==
  MkDoc(4 :> BodyEl @@ 5 :> BodyEl @@ 6 :> BodyEl @@ 7 :> 6,
        4 :> TextEl("h1", "Disk full")
     @@ 5 :> TextEl("h3", "[Triggered] Disk full {env:prod} on host")
     @@ 6 :> [Tag("div") EXCEPT !.cls = "druids_time_date-range-picker"]
     @@ 7 :> [Tag("input") EXCEPT !.value = "1h"])

DocLogs ==
  MkDoc(4 :> BodyEl @@ 5 :> BodyEl,
        4 :> TextEl("span", "Log Message") @@ 5 :> TextEl("code", "boom  at 3"))

DocSlack ==
  MkDoc(4 :> BodyEl @@ 5 :> BodyEl @@ 6 :> 5 @@ 7 :> 5 @@ 8 :> 7 @@ 9 :> 7
          @@ 10 :> BodyEl,
        4 :> TextEl("span", "Saved for later")
     @@ 5 :> Tag("div")
     @@ 6 :> [Tag("a") EXCEPT !.cls = "c-link c-timestamp",
                              !.dataTs = "1753899619.438709",
                              !.href = "https://x.slack.com/archives/C12AB/p17"]
     @@ 7 :> [Tag("div") EXCEPT !.dataQa = "message_content"]
     @@ 8 :> [Tag("span") EXCEPT !.dataQa = "message_sender",
                                 !.dataStringifyText = "Ann"]
     @@ 9 :> [TextEl("div", " hello ") EXCEPT !.dataQa = "message-text"]
     @@ 10 :> [TextEl("button", "Message  general") EXCEPT
                 !.dataChannelId = "C12AB"])

DocMeta ==
  MkDoc(4 :> HeadEl @@ 5 :> BodyEl @@ 6 :> 5,
        4 :> [Tag("meta") EXCEPT !.property = "og:title",
                                 !.content = "Open &amp; Graph"]
     @@ 5 :> [Tag("div") EXCEPT !.itemscope = TRUE,
                                !.itemtype = SchemaPrefix \o "Article"]
     @@ 6 :> [Tag("meta") EXCEPT !.itemprop = "headline",
                                 !.content = "Headline"])

DocSchema ==
  MkDoc(4 :> BodyEl @@ 5 :> 4 @@ 6 :> 4,
        4 :> [Tag("div") EXCEPT !.itemscope = TRUE,
                                !.itemtype = SchemaPrefix \o "Article"]
     @@ 5 :> [Tag("meta") EXCEPT !.itemprop = "headline",
                                 !.content = "Headline"]
     @@ 6 :> [Tag("link") EXCEPT !.itemprop = "url",
                                 !.href = "https://example.com/canonical"])

DocShop ==
  MkDoc(4 :> BodyEl @@ 5 :> BodyEl @@ 6 :> BodyEl @@ 7 :> BodyEl @@ 8 :> BodyEl,
        4 :> [TextEl("div", "Notes") EXCEPT !.cls = "hp-header-title-wrapper"]
     @@ 5 :> [TextEl("span", "Kettle") EXCEPT !.id = "productTitle"]
     @@ 6 :> [Tag("input") EXCEPT !.id = "ASIN", !.value = "B01"]
     @@ 7 :> [TextEl("h3", "Ann  Lee") EXCEPT !.cls = "name"]
     @@ 8 :> TextEl("h4", "Deploy chain"))

RichDocs == {DocMonitor, DocLogs, DocSlack, DocMeta, DocSchema, DocShop}

\* locations of a browser
BrowserLocations ==
  { BrowserLoc("https://app.graphite.dev", "/github/pr/figma/figma/123", ""),
    BrowserLoc("https://github.com", "/figma/figma/pull/42", ""),
    BrowserLoc("https://deploysv2.figma.com", "/pipeline-chain/631", ""),
    BrowserLoc("https://www.figma.com", "/file/abc", "?node=1"),
    BrowserLoc("https://paper.dropbox.com", "/doc/x", ""),
    BrowserLoc("https://www.amazon.com", "/dp/B01", ""),
    BrowserLoc("https://aws.amazon.com", "/s3/", ""),
    BrowserLoc("https://github.com", "/o/r/commit/abc", ""),
    BrowserLoc("https://app.datadoghq.com", "/monitors/12", ""),
    BrowserLoc("https://app.ddog-gov.com", "/monitors/3", ""),
    BrowserLoc("https://app.datadoghq.com", "/notebook/5", ""),
    BrowserLoc("https://app.datadoghq.com", "/monitors/1/notebook/2", ""),
    BrowserLoc("https://app.datadoghq.com", "/logs", "?query=status%3Aerror"),
    BrowserLoc("https://app.datadoghq.com", "/logs", "?query=100%25"),
    BrowserLoc("https://app.datadoghq.com", "/logs", ""),
    BrowserLoc("https://app.datadoghq.com", "/logs/commit/x", ""),
    BrowserLoc("https://app.datadoghq.com", "/dashboard/x", ""),
    BrowserLoc("https://temporal-eks.figma.com", "/ns", "?query=50%25"),
    BrowserLoc("https://temporal-eks.figma.com", "/ns", ""),
    BrowserLoc("https://www.notion.so", "/page", ""),
    BrowserLoc("https://app.asana.com", "/0/1/2", ""),
    BrowserLoc("https://app.greenhouse.io", "/scorecards/7/edit", ""),
    BrowserLoc("https://app.launchdarkly.com",
               "/projects/default/flags/my-flag/targeting", ""),
    BrowserLoc("https://www.goodreads.com", "/book/show/1", ""),
    BrowserLoc("https://app.slack.com", "/client/T1/C1", ""),
    BrowserLoc("https://example.com", "/page", "") }

\* locations as the test harness defines them: href and hostname only
StubLocations ==
  { StubLoc("app.datadoghq.com"), StubLoc("paper.dropbox.com"),
    StubLoc("deploysv2.figma.com"), StubLoc("app.launchdarkly.com"),
    StubLoc("example.com") }

Locations == BrowserLocations \cup StubLocations

Titles ==
  { "Plain Page", "Eiffel Tower - Google Maps", "a &amp;  b",
    "Fix it " \o MIDDOT \o " o/r@abc", "Logs | Datadog",
    BULLET \o " Team - Do the thing - Asana" }

\* every location and title on the empty document; the other documents
\* with every location
Pages ==
  { [loc |-> l, title |-> ti, kids |-> DocEmpty.kids, el |-> DocEmpty.el] :
      l \in Locations, ti \in Titles }
  \cup
  { [loc |-> l, title |-> "Plain Page", kids |-> d.kids, el |-> d.el] :
      l \in Locations, d \in RichDocs }

(***************************************************************************)
(* Pages of a Datadog monitor: an optional h1, some h3 headings and an     *)
(* optional date-range picker, all in body in this order.                  *)
(***************************************************************************)
\* h3 headings of one page
MaxH3 == 3
\* pieces an alert heading is put together from
MaxParts == 3

\* an element of a document under construction: under = 0 for a child of
\* body, k > 0 for a child of the element k places before it
Item(e, under) == [el |-> e, under |-> under]

DocOf(items) ==
  MkDoc([i \in 4..(3 + Len(items)) |->
           IF items[i - 3].under = 0 THEN BodyEl ELSE i - items[i - 3].under],
        [i \in 4..(3 + Len(items)) |-> items[i - 3].el])

MonitorLoc == BrowserLoc("https://app.datadoghq.com", "/monitors/12", "")

PlainLoc == BrowserLoc("https://example.com", "/page", "")

PageOf(l, ti, d) == [loc |-> l, title |-> ti, kids |-> d.kids, el |-> d.el]

H1Choices == {<<>>, <<Item(TextEl("h1", ""), 0)>>,
              <<Item(TextEl("h1", " Disk "), 0)>>}

H3Texts ==
  {"[Triggered] Disk full", "[Warn] Disk low", "[Triggered] Cpu high",
   "Disk report", "Notes"}

H3Lists == UNION {[1..n -> H3Texts] : n \in 0..MaxH3}

H3Items(texts) == [i \in 1..Len(texts) |-> Item(TextEl("h3", texts[i]), 0)]

PickerEl == [Tag("div") EXCEPT !.cls = "druids_time_date-range-picker"]

InputEl(v) == [Tag("input") EXCEPT !.value = v]

\* no picker; a picker without input; a picker whose input is empty; a
\* picker with a value; an empty picker before one with a value; an input
\* outside any picker
PickerChoices ==
  {<<>>,
   <<Item(PickerEl, 0)>>,
   <<Item(PickerEl, 0), Item(InputEl(""), 1)>>,
   <<Item(PickerEl, 0), Item(InputEl("1h"), 1)>>,
   <<Item(PickerEl, 0), Item(PickerEl, 0), Item(InputEl("2d"), 1)>>,
   <<Item(InputEl("3w"), 0)>>}

HeadingPieces == {"Disk", " ", "{env:prod}", "{a:b}", "{x}", "{c"}

RECURSIVE HeadingsOf(_)
HeadingsOf(n) ==
  IF n = 0 THEN {""}
  ELSE HeadingsOf(n - 1)
         \cup {s \o p : s \in HeadingsOf(n - 1), p \in HeadingPieces}

\* the three branches of the rule with every picker; every list of
\* headings with every h1, with and without a picker value; one alert
\* heading put together from pieces; and one page no rule answers
MonitorPages ==
  { PageOf(MonitorLoc, "Monitor | Datadog", DocOf(h1 \o H3Items(h3) \o pk)) :
      h1 \in H1Choices,
      h3 \in {<<>>, <<"Notes">>, <<"[Warn] Disk low {env:prod} now">>},
      pk \in PickerChoices }
  \cup
  { PageOf(MonitorLoc, "Monitor | Datadog", DocOf(h1 \o H3Items(h3) \o pk)) :
      h1 \in H1Choices, h3 \in H3Lists,
      pk \in {<<>>, <<Item(PickerEl, 0), Item(InputEl("1h"), 1)>>} }
  \cup
  { PageOf(MonitorLoc, "Monitor | Datadog",
           DocOf(<<Item(TextEl("h3", "[Triggered] " \o s), 0)>>)) :
      s \in HeadingsOf(MaxParts) }
  \cup
  { PageOf(PlainLoc, "Plain Page", DocEmpty) }

(***************************************************************************)
(* Pages of Slack: a message with its anchor text and time stamp, and      *)
(* documents that lack one of the parts the rule looks for.                *)
(***************************************************************************)
SlackLoc == BrowserLoc("https://app.slack.com", "/client/T1/C1", "")

\* a message: the link with the time stamp, the container with the sender
\* and the text
SlackMessage(ts) ==
  << Item(Tag("div"), 0),
     Item([Tag("a") EXCEPT !.cls = "c-link c-timestamp", !.dataTs = ts,
                           !.href = "https://x.slack.com/archives/C12AB/p17"], 1),
     Item([Tag("div") EXCEPT !.dataQa = "message_content"], 2),
     Item([Tag("span") EXCEPT !.dataQa = "message_sender",
                              !.dataStringifyText = "Ann"], 1),
     Item([TextEl("div", " hello ") EXCEPT !.dataQa = "message-text"], 2) >>

SlackAnchor(text) == <<Item(TextEl("span", text), 0)>>

SlackDocs ==
  { DocOf(SlackAnchor(a) \o SlackMessage(ts)) :
      a \in {"Saved for later", "Saved for later " \o BULLET \o " Due in 2 days",
             "Also sent to the channel", "Pinned"},
      ts \in {"1753899619.438709", "soon", ""} }
  \cup
  { DocOf(SlackMessage("1753899619.438709") \o SlackAnchor("Saved for later")),
    DocOf(SlackAnchor("Saved for later") \o <<Item(Tag("div"), 0)>>),
    DocEmpty }

\* the Slack documents under two titles, and one page no rule answers
SlackPages ==
  { PageOf(SlackLoc, ti, d) : ti \in {"Plain Page", "a &amp;  b"}, d \in SlackDocs }
  \cup
  { PageOf(PlainLoc, "Plain Page", DocEmpty) }

(***************************************************************************)
(* The harness of getSchemaOrgContent: an article that holds a wrapper     *)
(* without item scope and a nested person, a second article after it, and  *)
(* elements with itemprop="name" of every kind in any of these places.     *)
(***************************************************************************)
\* elements with the property in one document
MaxProps == 2

\* the elements of every document, after html, head and body
FirstItem == BodyEl + 1
Wrapper == FirstItem + 1
NestedItem == Wrapper + 1
SecondItem == NestedItem + 1
PropPlaces == {FirstItem, Wrapper, NestedItem, SecondItem, BodyEl}

ScopeEl(type) ==
  [Tag("div") EXCEPT !.itemscope = TRUE, !.itemtype = SchemaPrefix \o type]

ValueNames == <<"one", "two", "three", "four">>

\* the kinds of element that carry the property: meta with and without
\* content, link with href and with content only, an element with text,
\* with blank text, and one that opens an item scope of its own
NameKinds == {"meta", "bare meta", "link", "content link", "text", "blank", "scope"}
NameEl(kind, v) ==
  CASE kind = "meta" -> [Tag("meta") EXCEPT !.itemprop = "name", !.content = "meta " \o v]
    [] kind = "bare meta" -> [Tag("meta") EXCEPT !.itemprop = "name"]
    [] kind = "link" -> [Tag("link") EXCEPT !.itemprop = "name", !.href = "link " \o v]
    [] kind = "content link" ->
         [Tag("link") EXCEPT !.itemprop = "name", !.content = "content " \o v]
    [] kind = "text" -> [TextEl("span", " text " \o v \o " ") EXCEPT !.itemprop = "name"]
    [] kind = "blank" -> [TextEl("span", " ") EXCEPT !.itemprop = "name"]
    [] kind = "scope" ->
         [TextEl("span", "scope " \o v) EXCEPT !.itemprop = "name", !.itemscope = TRUE]

\* the document with the property elements of these kinds in these places
SchemaDoc(places, kinds) ==
  MkDoc([i \in (BodyEl + 1)..(SecondItem + Len(places)) |->
           IF i = FirstItem \/ i = SecondItem THEN BodyEl
           ELSE IF i = Wrapper \/ i = NestedItem THEN FirstItem
           ELSE places[i - SecondItem]],
        [i \in (BodyEl + 1)..(SecondItem + Len(places)) |->
           IF i = FirstItem \/ i = SecondItem THEN ScopeEl("Article")
           ELSE IF i = Wrapper THEN Tag("div")
           ELSE IF i = NestedItem THEN ScopeEl("Person")
           ELSE NameEl(kinds[i - SecondItem], ValueNames[i - SecondItem])])

AskedTypes == {"Article", "Person", "Thing"}

InitSchema ==
  /\ \E n \in 0..MaxProps :
       \E places \in [1..n -> PropPlaces], kinds \in [1..n -> NameKinds] :
         /\ kids = SchemaDoc(places, kinds).kids
         /\ attrs = SchemaDoc(places, kinds).el
  /\ kids0 = kids
  /\ cond = [n \in {dummyStart, HtmlEl, HeadEl, BodyEl} |-> "false"]
  /\ pcD = "idle"
  /\ startEl = Null
  /\ ret = [res |-> Null, exc |-> FALSE]
  /\ ParkedText
  /\ location = <<>> /\ docTitle = "" /\ pc = <<>> /\ ruleIdx = <<>>
  /\ pending = <<>> /\ returned = <<>> /\ active = 0 /\ memo = <<>>
  /\ logs = <<>> /\ trace = <<>>

CallGetSchemaOrgContent ==
  /\ pcD = "idle"
  /\ \E type \in AskedTypes :
       ret' = [res |-> getSchemaOrgContent([kids |-> kids, el |-> attrs],
                                          SchemaPrefix \o type, "name"),
               exc |-> FALSE, itemType |-> SchemaPrefix \o type]
  /\ pcD' = "getSchemaOrgContent"
  /\ UNCHANGED <<kids, kids0, cond, startEl, txtVars, disVars>>

ReturnSchema ==
  /\ pcD = "getSchemaOrgContent"
  /\ pcD' = "idle"
  /\ ret' = [res |-> Null, exc |-> FALSE]
  /\ UNCHANGED <<kids, kids0, cond, startEl, txtVars, disVars>>

NextSchema == CallGetSchemaOrgContent \/ ReturnSchema

SpecSchema == InitSchema /\ [][NextSchema]_vars

(***************************************************************************)
(* Asana pages: a title made of the bullet, a team, a task and the suffix, *)
(* team and task with and without " - " of their own; the location         *)
(* without query, with another parameter, and with focus=false.            *)
(***************************************************************************)
AsanaTeams == {"Team", "Core - Infra"}
AsanaTasks == {"Do the thing", "Fix A - B", ""}
AsanaTitle(team, task) == BULLET \o " " \o team \o " - " \o task \o " - Asana"
AsanaSearches == {"", "?a=1", "?focus=false&a=1"}

AsanaPages ==
  { PageOf(BrowserLoc("https://app.asana.com", "/0/1/2", s),
           AsanaTitle(team, task), DocEmpty) :
      s \in AsanaSearches, team \in AsanaTeams, task \in AsanaTasks }
  \cup
  { PageOf(PlainLoc, AsanaTitle("Team", "Do the thing"), DocEmpty) }

(***************************************************************************)
(* Pages of the hosts of the later rules whose href contains "/commit/",   *)
(* in the path or in the query, under titles with two separators, with one *)
(* and with none.                                                          *)
(***************************************************************************)
CommitLocations ==
  { BrowserLoc("https://app.datadoghq.com", "/monitors/commit/1", ""),
    BrowserLoc("https://app.datadoghq.com", "/notebook/commit/1", ""),
    BrowserLoc("https://app.datadoghq.com", "/logs/commit/x", "?query=a"),
    BrowserLoc("https://app.datadoghq.com", "/dashboard", "?next=/commit/"),
    BrowserLoc("https://temporal-eks.figma.com", "/commit/a", ""),
    BrowserLoc("https://www.notion.so", "/commit/a", ""),
    BrowserLoc("https://app.asana.com", "/0/commit/2", ""),
    BrowserLoc("https://app.greenhouse.io", "/scorecards/commit/7", ""),
    BrowserLoc("https://app.launchdarkly.com", "/commit/x", "?env=test"),
    BrowserLoc("https://www.goodreads.com", "/book/commit/1", ""),
    BrowserLoc("https://app.slack.com", "/client/commit/C1", "") }

CommitTitles ==
  { "Fix it " \o MIDDOT \o " o/r@abc",
    "a " \o MIDDOT \o " b " \o MIDDOT \o " o/r@abc",
    "Plain Page" }

CommitPages ==
  { PageOf(l, ti, DocEmpty) : l \in CommitLocations, ti \in CommitTitles }
  \cup
  { PageOf(PlainLoc, "Plain Page", DocEmpty) }

(***************************************************************************)
(* Slack messages with a time-stamp link beside the message container, in  *)
(* it, or both; each link with or without the class c-timestamp.           *)
(***************************************************************************)
OuterHref == "https://x.slack.com/archives/C12AB/p17"
InnerHref == "https://x.slack.com/archives/C12AB/p99"

\* no link, a[data-ts], a.c-timestamp[data-ts]
StampLinks(href) ==
  { <<>>,
    <<[Tag("a") EXCEPT !.dataTs = "1753899619.438709", !.href = href]>>,
    <<[Tag("a") EXCEPT !.cls = "c-link c-timestamp",
                       !.dataTs = "1753899619.438709", !.href = href]>> }

\* the message: outer link, container, sender, inner link, text
LinkedMessage(outer, inner) ==
  << Item(Tag("div"), 0) >>
    \o [i \in 1..Len(outer) |-> Item(outer[i], 1)]
    \o << Item([Tag("div") EXCEPT !.dataQa = "message_content"], 1 + Len(outer)),
          Item([Tag("span") EXCEPT !.dataQa = "message_sender",
                                   !.dataStringifyText = "Ann"], 1) >>
    \o [i \in 1..Len(inner) |-> Item(inner[i], 2)]
    \o << Item([TextEl("div", " hello ") EXCEPT !.dataQa = "message-text"],
               2 + Len(inner)) >>

SlackLinkPages ==
  { PageOf(SlackLoc, ti, DocOf(SlackAnchor("Saved for later")
                                 \o LinkedMessage(outer, inner))) :
      ti \in {"Plain Page", "a &amp;  b"},
      outer \in StampLinks(OuterHref), inner \in StampLinks(InnerHref) }
  \cup
  { PageOf(PlainLoc, "Plain Page", DocEmpty) }

(***************************************************************************)
(* Pages without a rule of their own: an optional og:title, schema.org     *)
(* items of several types in every document order, each with its           *)
(* properties as meta elements.                                            *)
(***************************************************************************)
\* schema.org items of one page
MaxItems == 2

YouTubeLoc == BrowserLoc("https://www.youtube.com", "/watch", "?v=1")

OgTitleEl(v) == [Tag("meta") EXCEPT !.property = "og:title", !.content = v]
OgChoices == {<<>>, <<Item(OgTitleEl(""), 0)>>, <<Item(OgTitleEl("Og  Title"), 0)>>}

PropEl(prop, v) == [Tag("meta") EXCEPT !.itemprop = prop, !.content = v]

\* an item of a type with its properties as children
SchemaItem(type, props) ==
  <<Item([Tag("div") EXCEPT !.itemscope = TRUE,
                            !.itemtype = SchemaPrefix \o type], 0)>>
    \o [i \in 1..Len(props) |-> Item(props[i], i)]

ItemTypes == {"Article", "WebPage", "Thing"}

\* no property, a headline, a name, a name before a headline, an empty
\* headline before a name
PropChoices(type) ==
  { <<>>,
    <<PropEl("headline", "Head  " \o type)>>,
    <<PropEl("name", "Name " \o type)>>,
    <<PropEl("name", "Name " \o type), PropEl("headline", "Head  " \o type)>>,
    <<PropEl("headline", ""), PropEl("name", "Name " \o type)>> }

ItemKinds == UNION {{SchemaItem(type, props) : props \in PropChoices(type)} :
                      type \in ItemTypes}

\* up to n items one after the other
RECURSIVE ItemLists(_)
ItemLists(n) ==
  IF n = 0 THEN {<<>>}
  ELSE LET shorter == ItemLists(n - 1)
       IN  shorter \cup {s \o k : s \in shorter, k \in ItemKinds}

\* a video with its channel as author
VideoItem ==
  SchemaItem("VideoObject", <<PropEl("name", "Name VideoObject"),
                              PropEl("author", "Chan")>>)

\* every og:title with at most one item; no og:title with every list of
\* items; pages of YouTube; and one page a rule answers
GenericPages ==
  { PageOf(PlainLoc, "Eiffel Tower - Google Maps", DocOf(og \o items)) :
      og \in OgChoices, items \in ItemLists(1) }
  \cup
  { PageOf(PlainLoc, "Eiffel Tower - Google Maps", DocOf(items)) :
      items \in ItemLists(MaxItems) }
  \cup
  { PageOf(YouTubeLoc, "Clip - YouTube", DocOf(og \o items)) :
      og \in {<<>>, <<Item(OgTitleEl("Clip"), 0)>>,
              <<Item(OgTitleEl("Clip - Chan"), 0)>>},
      items \in {<<>>, VideoItem} }
  \cup
  { PageOf(MonitorLoc, "Monitor | Datadog", DocEmpty) }

(***************************************************************************)
(* Monitor pages whose one h3 begins with a marker: either marker before   *)
(* a heading that holds no bracket, the same marker, the other marker, or  *)
(* an opening bracket of the other marker only.                            *)
(***************************************************************************)
Markers == {"[Triggered] ", "[Warn] "}
MarkerRests ==
  {"Disk full", "Disk [Warn] low", "Disk [Triggered] again", "Disk [Triggered",
   "Disk [Warn"}

MarkerPages ==
  { PageOf(MonitorLoc, "Monitor | Datadog",
           DocOf(h1 \o <<Item(TextEl("h3", m \o r), 0)>> \o pk)) :
      h1 \in H1Choices, m \in Markers, r \in MarkerRests,
      pk \in {<<>>, <<Item(PickerEl, 0), Item(InputEl("1h"), 1)>>} }
  \cup
  { PageOf(PlainLoc, "Plain Page", DocEmpty) }

(***************************************************************************)
(* Pages on which an element a rule asks findElement for is not in the     *)
(* document yet: the page may insert it later.                             *)
(***************************************************************************)
PaperLoc == BrowserLoc("https://paper.dropbox.com", "/doc/x", "")
GreenhouseLoc == BrowserLoc("https://app.greenhouse.io", "/scorecards/7/edit", "")

\* the document without the child n of body; the element is kept aside
Detached(d, n) == [kids |-> removeChild(d.kids, BodyEl, n), el |-> d.el]

\* the elements of DocShop findElement is asked for by dropboxPaper (the
\* header, 4) and by greenhouse (the name, 7)
AsideEls == {4, 7}

FindPages ==
  { PageOf(l, "Plain Page", d) :
      l \in {PaperLoc, GreenhouseLoc, PlainLoc},
      d \in {DocShop} \cup {Detached(DocShop, n) : n \in AsideEls} }

(***************************************************************************)
(* getDocInfo as a state machine.  A call runs without interruption from   *)
(* its start or resumption to its next await or its return; while it       *)
(* awaits its extractor, other calls may run.                              *)
(***************************************************************************)
\* calls of getDocInfo made on one page
MaxCalls == 2
Calls == 1..MaxCalls

\* the page as the running code sees it
Page == [loc |-> location, title |-> docTitle, kids |-> kids, el |-> attrs]

Event(c, ev, i) == [call |-> c, ev |-> ev, rule |-> i]

\* what a call holds before it has returned
NotYet == [link |-> Undefined, title |-> Undefined]

\* the answers on a page: per rule what isMatch returns and, where the
\* dispatcher invokes the extractor, how it settles and the document it
\* leaves; and the record of the generic resolver
Answers(pg) ==
  [rules |-> [i \in 1..Len(Rules) |->
                TheOne({ IF m # "throw" /\ matched(m)
                         THEN [m |-> m, out |-> ruleGetDocInfo(Rules[i], pg),
                               doc |-> documentAfter(Rules[i], pg)]
                         ELSE [m |-> m, out |-> Rejected("none"),
                               doc |-> pg.kids]
                         : m \in {isMatch(Rules[i], pg.loc)} })],
   generic |-> fallbackResult(pg)]

\* the answers on the page as it is now: memo holds them for the document
\* the calls started on
AnswersNow == IF kids = kids0 THEN memo ELSE Answers(Page)

CHECKMARK == "+"   \* stands for U+2713, the mark of a rule that matched
CROSSMARK == "-"   \* stands for U+2717, the mark of a rule that threw

\* lines 16-21: logger.log(message) pushes the message; the entry keeps, as
\* history, the call the message is from
LogEntry(c, message) == [call |-> c, msg |-> message]
log(c, messages) == [j \in 1..Len(messages) |-> LogEntry(c, messages[j])]

\* the messages rule.isMatch() pushes: lines 1029-1036, launchDarkly only
isMatchLogs(name, l) ==
  IF name = "launchDarkly"
  THEN <<"LaunchDarkly isMatch check - hostname: " \o l.hostname,
         "LaunchDarkly isMatch result: " \o isMatch(name, l)>>
  ELSE <<>>

\* the messages of an extractor and of the generic resolver, each run taken
\* together as one entry
extractorLogs(name) == <<name \o ".getDocInfo">>
genericLogs == <<"getUrl, getTitle">>

ruleLabel(i) == toString(i - 1) \o " (" \o Rules[i] \o ")"

\* lines 1366 and 1392
callLogs == <<"getDocInfo() started",
              "Checking " \o toString(Len(Rules)) \o " rules">>

\* lines 1396-1411: the messages of one turn of the loop up to the await
checkRuleLogs(i, m, l) ==
  <<"Checking rule " \o toString(i - 1) \o ": " \o Rules[i]>>
    \o isMatchLogs(Rules[i], l)
    \o (IF m = "throw"
        THEN <<CROSSMARK \o " Error in rule " \o ruleLabel(i) \o ": TypeError">>
        ELSE <<"Rule " \o ruleLabel(i) \o " isMatch result: " \o m>>
               \o (IF matched(m)
                   THEN <<CHECKMARK \o " Rule matched: " \o Rules[i],
                          "About to call getDocInfo for " \o Rules[i]>>
                          \o extractorLogs(Rules[i])
                   ELSE <<>>))

\* lines 1406 and 1410: the messages after the await; JSON.stringify(res) is
\* shown by the title
resumeLogs(i, outcome) ==
  IF outcome.ok
  THEN <<CHECKMARK \o " " \o Rules[i] \o " result: " \o outcome.val.title>>
  ELSE <<CROSSMARK \o " Error in rule " \o ruleLabel(i) \o ": " \o outcome.val>>

\* lines 1415-1418
fallbackLogs(record) ==
  <<"No rules matched, using fallback">> \o genericLogs
    \o <<"Fallback result: " \o record.title>>

\* getDocInfo has not been called on one of the pages
InitOn(pages) ==
  /\ \E pg \in pages :
       /\ location = pg.loc
       /\ docTitle = pg.title
       /\ kids = pg.kids
       /\ attrs = pg.el
  /\ kids0 = kids
  /\ memo = Answers(Page)
  /\ pc = [c \in Calls |-> "idle"]
  /\ ruleIdx = [c \in Calls |-> 0]
  /\ pending = [c \in Calls |-> Resolved(Null)]
  /\ returned = [c \in Calls |-> NotYet]
  /\ active = 0
  /\ logs = <<>>
  /\ trace = <<>>
  /\ cond = [n \in {dummyStart, HtmlEl, HeadEl, BodyEl} |-> "false"]
  /\ pcD = "parked"
  /\ startEl = Null
  /\ ret = [res |-> Null, exc |-> FALSE]
  /\ ParkedText

InitDispatch == InitOn(Pages)

InitMonitor == InitOn(MonitorPages)

InitSlack == InitOn(SlackPages)

InitGeneric == InitOn(GenericPages)

InitFind == InitOn(FindPages)

InitMarker == InitOn(MarkerPages)

InitSlackLink == InitOn(SlackLinkPages)

InitAsana == InitOn(AsanaPages)

InitCommit == InitOn(CommitPages)

\* lines 1365-1394: the call starts and enters the loop; calls are numbered
\* in the order they are made
Call(c) ==
  /\ pc[c] = "idle"
  /\ \A d \in Calls : d < c => pc[d] # "idle"
  /\ active = 0
  /\ pc' = [pc EXCEPT ![c] = "loop"]
  /\ ruleIdx' = [ruleIdx EXCEPT ![c] = 1]
  /\ active' = c
  /\ trace' = Append(trace, Event(c, "call", 0))
  /\ logs' = logs \o log(c, callLogs)
  /\ UNCHANGED <<dfsVars, txtVars, location, docTitle, attrs, pending, returned,
                 memo>>

\* lines 1394-1412: one turn of the loop up to the await
CheckRule(c) ==
  /\ pc[c] = "loop"
  /\ active = c
  /\ ruleIdx[c] <= Len(Rules)
  /\ \E i \in {ruleIdx[c]} : \E rule \in {AnswersNow.rules[ruleIdx[c]]} :
       /\ logs' = logs \o log(c, checkRuleLogs(i, rule.m, location))
       /\ IF rule.m = "throw"
          THEN /\ pc' = [pc EXCEPT ![c] = catchContinue(i).pc]
               /\ ruleIdx' = [ruleIdx EXCEPT ![c] = catchContinue(i).ruleIdx]
               /\ active' = IF catchContinue(i).pc = "loop" THEN c ELSE 0
               /\ trace' = trace \o <<Event(c, "isMatchThrew", i),
                                      Event(c, "catch", i)>>
               /\ UNCHANGED <<kids, pending>>
          ELSE IF matched(rule.m)
          THEN /\ pending' = [pending EXCEPT ![c] = rule.out]
               /\ kids' = rule.doc
               /\ pc' = [pc EXCEPT ![c] = "await"]
               /\ active' = 0
               /\ trace' = trace \o <<Event(c, "isMatch", i),
                                      Event(c, "getDocInfo", i)>>
               /\ UNCHANGED ruleIdx
          ELSE /\ ruleIdx' = [ruleIdx EXCEPT ![c] = i + 1]
               /\ trace' = Append(trace, Event(c, "isMatch", i))
               /\ UNCHANGED <<kids, pc, pending, active>>
  /\ UNCHANGED <<kids0, cond, pcD, startEl, ret, txtVars, location, docTitle,
                 attrs, returned, memo>>

\* lines 1405-1412: the awaited extractor has settled
Resume(c) ==
  /\ pc[c] = "await"
  /\ active = 0
  /\ logs' = logs \o log(c, resumeLogs(ruleIdx[c], pending[c]))
  /\ LET i == ruleIdx[c]
     IN  IF pending[c].ok
         THEN /\ returned' = [returned EXCEPT ![c] = pending[c].val]
              /\ pc' = [pc EXCEPT ![c] = "done"]
              /\ trace' = Append(trace, Event(c, "return", i))
              /\ UNCHANGED <<ruleIdx, active>>
         ELSE /\ pc' = [pc EXCEPT ![c] = catchContinue(i).pc]
              /\ ruleIdx' = [ruleIdx EXCEPT ![c] = catchContinue(i).ruleIdx]
              /\ active' = IF catchContinue(i).pc = "loop" THEN c ELSE 0
              /\ trace' = trace \o <<Event(c, "getDocInfoThrew", i),
                                     Event(c, "catch", i)>>
              /\ UNCHANGED returned
  /\ UNCHANGED <<dfsVars, txtVars, location, docTitle, attrs, pending, memo>>

\* lines 1415-1419: no rule answered
Fallback(c) ==
  /\ pc[c] = "loop"
  /\ active = c
  /\ ruleIdx[c] = Len(Rules) + 1
  /\ \E record \in {AnswersNow.generic} :
       /\ returned' = [returned EXCEPT ![c] = record]
       /\ logs' = logs \o log(c, fallbackLogs(record))
  /\ pc' = [pc EXCEPT ![c] = "done"]
  /\ active' = 0
  /\ trace' = Append(trace, Event(c, "fallback", ruleIdx[c]))
  /\ UNCHANGED <<dfsVars, txtVars, location, docTitle, attrs, ruleIdx, pending,
                 memo>>

\* the page inserts an element it had kept aside, at the end of body, while
\* no call is running
Appear ==
  /\ active = 0
  /\ \E n \in DOMAIN attrs \ DOMAIN kids :
       /\ kids' = appendChild(kids, BodyEl, n)
       /\ trace' = Append(trace, Event(0, "appear", n))
  /\ UNCHANGED <<kids0, cond, pcD, startEl, ret, txtVars, location, docTitle,
                 attrs, pc, ruleIdx, pending, returned, active, memo, logs>>

Run == \E c \in Calls : CheckRule(c) \/ Resume(c) \/ Fallback(c)

Next == (\E c \in Calls : Call(c)) \/ Run

Spec == InitDispatch /\ [][Next]_vars

\* the event loop runs every job that is ready
FairSpec == Spec /\ WF_vars(Run)

\* getDocInfo called once
NextOne == Call(1) \/ CheckRule(1) \/ Resume(1) \/ Fallback(1)

\* one call on a page of a Datadog monitor
SpecMonitor == InitMonitor /\ [][NextOne]_vars

\* one call on a page of Slack
SpecSlack == InitSlack /\ [][NextOne]_vars

\* one call on a page without a rule of its own
SpecGeneric == InitGeneric /\ [][NextOne]_vars

SpecMarker == InitMarker /\ [][NextOne]_vars

SpecSlackLink == InitSlackLink /\ [][NextOne]_vars

SpecAsana == InitAsana /\ [][NextOne]_vars

SpecCommit == InitCommit /\ [][NextOne]_vars

\* one call on a page that inserts elements of its own
NextFind == NextOne \/ Appear
SpecFind == InitFind /\ [][NextFind]_vars

(***************************************************************************)
(* The claims about the search primitives and cleanupContent.              *)
(***************************************************************************)
\* C6: for an attached start element, a findNextElementDFS call that returns
\* (the condition did not throw) returns exactly the first element strictly
\* after start in depth-first pre-order for which the condition holds, null
\* if there is none; hence never start itself nor an element before start.
C6_NextIsFirstAfterStart ==
  (pcD = "findNext" /\ ~ret.exc) =>
     /\ ret.res = FirstTrueAfter(kids, cond, PosIn(DocOrder(kids), startEl))
     /\ ret.res # startEl

\* the start element and an element before it satisfy the condition, and the
\* call returned a later element
C6_Witness ==
  /\ pcD = "findNext" /\ ~ret.exc
  /\ cond[startEl] = "true"
  /\ ret.res # Null
  /\ \E i \in 1..(PosIn(DocOrder(kids), startEl) - 1) :
        cond[DocOrder(kids)[i]] = "true"

\* C7: after findFirstInWholeDFS returns or throws, the synthetic anchor is
\* in no child list of the document and the tree equals the tree before the
\* call, whether an element was found, none was found or the condition threw.
C7_AnchorRemoved ==
  /\ (pcD = "findFirst" =>
        /\ kids = kids0
        /\ dummyStart \notin DOMAIN kids
        /\ parentNode(kids, dummyStart) = Null)
  /\ (pcD = "idle" => dummyStart \notin DOMAIN kids)

\* the condition threw during the search of a document with elements in body
C7_Witness ==
  /\ pcD = "findFirst"
  /\ ret.exc
  /\ Len(kids0[BodyEl]) > 0
  /\ kids = kids0

\* C8: a findFirstInWholeDFS call that returns gives the first element of the
\* entire document, in document order, for which the condition holds, and
\* null only if no element of the document satisfies it.
C8_FirstOfWholeDocument ==
  (pcD = "findFirst" /\ \A n \in DOMAIN cond : cond[n] # "throw") =>
     /\ ~ret.exc
     /\ ret.res = FirstTrueAfter(kids0, cond, 0)

\* C9: cleanupContent is idempotent on every input.
C9_Idempotent ==
  pcT = "twice" => txtOut2 = txtOut

\* C9 as amended: a second cleanupContent changes nothing whenever the first
\* result holds no character reference left to decode.
C9_IdempotentOnceDecoded ==
  (pcT = "twice" /\ decodeEntities(txtOut) = txtOut) => txtOut2 = txtOut

\* an input with a reference, a white-space run and white space at its ends,
\* normalized twice
C9_Witness ==
  /\ pcT = "twice"
  /\ decodeEntities(txtOut) = txtOut
  /\ decodeEntities(txtIn) # txtIn
  /\ txtOut # txtIn
  /\ txtOut # decodeEntities(txtIn)
  /\ txtOut2 = txtOut

(***************************************************************************)
(* The claims about the dispatcher.                                        *)
(***************************************************************************)
\* the page as it was when the calls started
PageAtStart == [Page EXCEPT !.kids = kids0]

\* what call c did, in order
EventsOf(c) == SelectSeq(trace, LAMBDA e : e.call = c)

\* rule i answers: its isMatch returns true and its extractor resolves
answers(i) ==
  /\ isMatch(Rules[i], location) = "true"
  /\ ruleGetDocInfo(Rules[i], PageAtStart).ok

\* the lowest-index rule that answers when the rules in skip are taken as
\* not matching; 0 when no rule answers
winner(skip) ==
  LET candidates == {i \in 1..Len(Rules) : i \notin skip /\ answers(i)}
  IN  IF candidates = {} THEN 0
      ELSE CHOOSE i \in candidates : \A j \in candidates : i <= j

expectedResult(skip) ==
  IF winner(skip) = 0 THEN DocInfo(getUrl(PageAtStart), getTitle(PageAtStart))
  ELSE ruleGetDocInfo(Rules[winner(skip)], PageAtStart).val

\* C1: the rules are evaluated in list order; the result is that of the
\* lowest-index rule whose isMatch is true and whose extractor resolves; no
\* later rule's isMatch or extractor is ever invoked, and the call returns
\* exactly once, as its last step.
C1_FirstMatchWins ==
  \A c \in Calls :
    LET ev == EventsOf(c)
        w == winner({})
    IN  /\ \A j \in 1..Len(ev) : \A k \in j..Len(ev) : ev[j].rule <= ev[k].rule
        /\ w # 0 => \A j \in 1..Len(ev) : ev[j].rule <= w
        /\ (pc[c] = "done" /\ w # 0) =>
             /\ returned[c] = ruleGetDocInfo(Rules[w], PageAtStart).val
             /\ ev[Len(ev)] = Event(c, "return", w)
             /\ \A j \in 1..(Len(ev) - 1) : ev[j].ev \notin {"return", "fallback"}

C1_Witness ==
  \E c \in Calls :
    /\ pc[c] = "done"
    /\ winner({}) = 9
    /\ answers(12)
    /\ returned[c] # ruleGetDocInfo(Rules[12], PageAtStart).val

\* C2: a throw of rule i, in isMatch or in the extractor, is caught: the
\* call is never rejected, the next thing it does is to evaluate rule i+1
\* (or to fall back after the last rule), and the value it returns is the
\* one of a run in which rule i does not match.
C2_ThrowIsNonMatch ==
  \A c \in Calls :
    LET ev == EventsOf(c)
    IN  /\ pc[c] # "rejected"
        /\ \A j \in 1..Len(ev) :
             ev[j].ev = "catch" =>
               /\ pc[c] = "loop" => ruleIdx[c] >= ev[j].rule + 1
               /\ j < Len(ev) =>
                    /\ ev[j + 1].rule = ev[j].rule + 1
                    /\ ev[j + 1].ev \in {"isMatch", "isMatchThrew", "fallback"}
               /\ pc[c] = "done" => returned[c] = expectedResult({ev[j].rule})

C2_Witness ==
  \E c \in Calls :
    /\ pc[c] = "done"
    /\ Event(c, "isMatchThrew", 9) \in {EventsOf(c)[j] : j \in 1..Len(EventsOf(c))}
    /\ Event(c, "return", 12) \in {EventsOf(c)[j] : j \in 1..Len(EventsOf(c))}

NoMetadata ==
  \A n \in DOMAIN attrs : attrs[n].property = Absent /\ ~attrs[n].itemscope

\* C4 as stated: when no rule answers, the call returns the record of the
\* generic resolver, which without Open Graph and schema.org data is
\* {link: location.href, title: document.title}.
C4_RawDocumentTitle ==
  \A c \in Calls :
    (pc[c] = "done" /\ winner({}) = 0) =>
      /\ returned[c] = DocInfo(getUrl(PageAtStart), getTitle(PageAtStart))
      /\ NoMetadata => returned[c] = DocInfo(location.href, docTitle)

\* C4, amended: when no rule answers, the call returns the record of the
\* generic resolver, which without Open Graph and schema.org data is
\* location.href with the normalised document.title, a trailing
\* " - Google Maps", " - Google Search", " - Bing Maps" or " - Apple Maps"
\* rewritten as " (<service>)".
C4_GenericFallback ==
  \A c \in Calls :
    (pc[c] = "done" /\ winner({}) = 0) =>
      /\ returned[c] = DocInfo(getUrl(PageAtStart), getTitle(PageAtStart))
      /\ EventsOf(c)[Len(EventsOf(c))].ev = "fallback"
      /\ NoMetadata =>
           /\ returned[c].link = location.href
           /\ returned[c].title = documentTitleFallback(PageAtStart)

C4_Witness ==
  \E c \in Calls :
    /\ pc[c] = "done"
    /\ winner({}) = 0
    /\ NoMetadata
    /\ docTitle = "Eiffel Tower - Google Maps"
    /\ returned[c].title = "Eiffel Tower (Google Maps)"
    /\ \E j \in 1..Len(EventsOf(c)) : EventsOf(c)[j].ev = "catch"

\* C5: a call of getDocInfo is never rejected, and every call that has
\* started is eventually fulfilled with a DocInfo.
C5_AlwaysFulfils ==
  /\ [](\A c \in Calls : pc[c] # "rejected")
  /\ \A c \in Calls :
       (pc[c] \in {"loop", "await"}) ~> (pc[c] = "done" /\ returned[c] # NotYet)

C5_Witness ==
  \E c \in Calls :
    /\ pc[c] = "done"
    /\ returned[c] # NotYet
    /\ \E j \in 1..Len(EventsOf(c)) : EventsOf(c)[j].ev = "getDocInfoThrew"
    /\ \E j \in 1..Len(EventsOf(c)) : EventsOf(c)[j].ev = "fallback"

\* C10: on a Datadog page with a '/monitors/' pathname the monitor rule
\* answers; on a datadoghq.com page with a '/logs' pathname (no
\* '/monitors/', no '/notebook/') the logs rule answers, with a title that
\* ends in ' (Logs)'.
C10_DatadogPriority ==
  \A c \in Calls :
    (pc[c] = "done" /\ location.pathname # Undefined) =>
      LET last == EventsOf(c)[Len(EventsOf(c))]
      IN  /\ (isDatadogHost(location) = "true"
                /\ includes(location.pathname, "/monitors/")) =>
               last = Event(c, "return", 9)
          /\ (/\ includes(location.hostname, "datadoghq.com")
              /\ includes(location.pathname, "/logs")
              /\ ~includes(location.pathname, "/monitors/")
              /\ ~includes(location.pathname, "/notebook/")) =>
               /\ last = Event(c, "return", 11)
               /\ endsWith(returned[c].title, " (Logs)")

(***************************************************************************)
(* The claims about the Datadog monitor rule.                              *)
(***************************************************************************)
RuleIndex(name) == CHOOSE i \in 1..Len(Rules) : Rules[i] = name

\* call c has returned the record of the rule of that name
AnsweredBy(c, name) ==
  /\ pc[c] = "done"
  /\ EventsOf(c)[Len(EventsOf(c))] = Event(c, "return", RuleIndex(name))

\* the elements of a tag name, by their place in document order
PlaceOf(n) == PosIn(DocOrder(kids0), n)
TagNodes(name) == {n \in DOMAIN attrs : attrs[n].tag = name}
TextOf(n) == textContent(PageAtStart, n)

\* the trimmed text of the first h1, "" without h1
H1Text ==
  IF TagNodes("h1") = {} THEN ""
  ELSE trim(TextOf(CHOOSE n \in TagNodes("h1") :
                     \A m \in TagNodes("h1") : PlaceOf(n) <= PlaceOf(m)))

Qualifies(n) ==
  /\ includes(TextOf(n), "[Triggered") \/ includes(TextOf(n), "[Warn")
  /\ H1Text # "" => includes(TextOf(n), H1Text)

\* the title made of the heading n: the marker stripped, the curly tags
\* moved
HeadingTitle(n) ==
  moveCurlyTags(stripMarker(TextOf(n),
    IF includes(TextOf(n), "[Triggered") THEN "Triggered" ELSE "Warn"))

\* the suffix of the first date-range picker: its first input's value in
\* parentheses, "" without picker, without input or with an empty value
TimeRangeSuffix ==
  LET pickers == {n \in DOMAIN attrs :
                    hasClass(attrs[n], "druids_time_date-range-picker")}
  IN  IF pickers = {} THEN ""
      ELSE LET picker == CHOOSE n \in pickers :
                           \A m \in pickers : PlaceOf(n) <= PlaceOf(m)
               inside == Tail(Preorder(kids0, picker))
               inputs == {i \in 1..Len(inside) : attrs[inside[i]].tag = "input"}
           IN  IF inputs = {} THEN ""
               ELSE LET v == attrs[inside[CHOOSE i \in inputs :
                                            \A j \in inputs : i <= j]].value
                    IN  IF v = "" THEN "" ELSE " (" \o v \o ")"

\* C11: when some h3 qualifies (its text contains "[Triggered" or "[Warn"
\* and, if the h1 text is not empty, the h1 text), the title of the monitor
\* rule is made of the first qualifying h3 in document order: no h3 before
\* it qualifies, and the h3 after it do not matter.
C11_FirstQualifyingH3 ==
  (AnsweredBy(1, "datadogMonitor") /\ \E n \in TagNodes("h3") : Qualifies(n)) =>
     \E n \in TagNodes("h3") :
        /\ Qualifies(n)
        /\ \A m \in TagNodes("h3") : PlaceOf(m) < PlaceOf(n) => ~Qualifies(m)
        /\ returned[1].title = HeadingTitle(n) \o TimeRangeSuffix

\* an h3 with the trigger only, then two qualifying h3: the first of the
\* two makes the title
C11_Witness ==
  /\ AnsweredBy(1, "datadogMonitor")
  /\ H1Text = "Disk"
  /\ \E a, b, d \in TagNodes("h3") :
        /\ PlaceOf(a) < PlaceOf(b) /\ PlaceOf(b) < PlaceOf(d)
        /\ TextOf(a) = "[Triggered] Cpu high"
        /\ TextOf(b) = "[Warn] Disk low"
        /\ TextOf(d) = "[Triggered] Disk full"
  /\ returned[1].title = "Disk low"

\* the first h3 that qualifies, and its heading without the marker
HasQualifying == \E n \in TagNodes("h3") : Qualifies(n)
FirstQualifying ==
  CHOOSE n \in TagNodes("h3") :
    /\ Qualifies(n)
    /\ \A m \in TagNodes("h3") : Qualifies(m) => PlaceOf(n) <= PlaceOf(m)
Heading ==
  stripMarker(TextOf(FirstQualifying),
    IF includes(TextOf(FirstQualifying), "[Triggered") THEN "Triggered" ELSE "Warn")

\* the heading with every matched tag cut out at the place where it was
\* matched, a space in its stead
RECURSIVE cutMatches(_, _)
cutMatches(s, i) ==
  IF i > Len(s) THEN ""
  ELSE IF CharAt(s, i) # "{" THEN CharAt(s, i) \o cutMatches(s, i + 1)
  ELSE LET rest == From(s, i + 1)
           close == indexOf(rest, "}")
       IN  IF close # 0 /\ includes(Upto(rest, close - 1), ":")
           THEN " " \o cutMatches(s, i + close + 1)
           ELSE CharAt(s, i) \o cutMatches(s, i + 1)
TextAroundTags == trim(collapseSpace(cutMatches(Heading, 1)))
MatchedTags == curlyTagsFrom(Heading, 1)
TagBlock == joinWith(MatchedTags, "")
TaggedHeading ==
  AnsweredBy(1, "datadogMonitor") /\ HasQualifying /\ Len(MatchedTags) > 0

\* C12: when the heading without its marker holds curly tags {key:value},
\* every matched tag is taken out of its place and all of them stand at the
\* end of the title in their order of appearance, unchanged and with nothing
\* between them; the text before that block is the text around the tags and
\* holds none of the matched tags.
C12_TagsMovedToEnd ==
  TaggedHeading =>
    /\ \E sep \in {"", " "} :
          returned[1].title =
            TextAroundTags \o sep \o TagBlock \o TimeRangeSuffix
    /\ \A i \in 1..Len(MatchedTags) : ~includes(TextAroundTags, MatchedTags[i])

\* the place where the last matched tag ends, 0 without tag
RECURSIVE lastMatchEnd(_, _, _)
lastMatchEnd(s, i, last) ==
  IF i > Len(s) THEN last
  ELSE IF CharAt(s, i) # "{" THEN lastMatchEnd(s, i + 1, last)
  ELSE LET rest == From(s, i + 1)
           close == indexOf(rest, "}")
       IN  IF close # 0 /\ includes(Upto(rest, close - 1), ":")
           THEN lastMatchEnd(s, i + close + 1, i + close)
           ELSE lastMatchEnd(s, i + 1, last)

\* nothing but white space follows the last matched tag
LastTagAtEnd == trim(From(Heading, lastMatchEnd(Heading, 1, 0) + 1)) = ""

\* the title without the time range
TitleBase == Upto(returned[1].title, Len(returned[1].title) - Len(TimeRangeSuffix))
BeforeBlock == Upto(TitleBase, Len(TitleBase) - Len(TagBlock))

\* C13: the block of tags at the end of the title is preceded by exactly one
\* space if and only if the last matched tag stood at the end of the heading
\* before the tags were removed; otherwise no space precedes the block.
C13_SpaceIffLastTagAtEnd ==
  TaggedHeading =>
    /\ endsWith(TitleBase, TagBlock)
    /\ LastTagAtEnd => endsWith(BeforeBlock, " ") /\ ~endsWith(BeforeBlock, "  ")
    /\ ~LastTagAtEnd => ~endsWith(BeforeBlock, " ")

\* a tag in front and the last tag at the end: one space before the block
C13_Witness ==
  /\ TaggedHeading
  /\ Heading = "{a:b}Disk{env:prod}"
  /\ LastTagAtEnd
  /\ returned[1].title = "Disk {a:b}{env:prod}"

\* the steps call c has taken
StepsOf(c) == {EventsOf(c)[j] : j \in 1..Len(EventsOf(c))}

\* the title of the monitor rule before the time range, in its three
\* branches
MonitorBase ==
  IF HasQualifying THEN HeadingTitle(FirstQualifying)
  ELSE IF H1Text # "" THEN H1Text
  ELSE PageAtStart.title

\* C14: in each of its three branches (qualifying h3, h1, document.title)
\* the title of the monitor rule is the branch's text followed by the time
\* range: " (value)" when the date-range picker holds an input with a
\* value that is not empty, nothing otherwise; and the rule never throws
\* over it.
C14_TimeRangeInEveryBranch ==
  /\ Event(1, "getDocInfoThrew", RuleIndex("datadogMonitor")) \notin StepsOf(1)
  /\ AnsweredBy(1, "datadogMonitor") =>
        /\ returned[1].title = MonitorBase \o TimeRangeSuffix
        /\ endsWith(returned[1].title, TimeRangeSuffix)

\* the h1 branch with a picker whose input reads 1h
C14_Witness ==
  /\ AnsweredBy(1, "datadogMonitor")
  /\ ~HasQualifying
  /\ TimeRangeSuffix = " (1h)"
  /\ returned[1].title = "Disk (1h)"

\* C15: when no h3 qualifies, the title before the time range is the
\* trimmed text of the h1 if that is not empty and document.title if the h1
\* is missing or empty; without h1 the rule still answers.
C15_H1ThenDocumentTitle ==
  /\ (pc[1] = "done" /\ TagNodes("h1") = {}
         /\ Event(1, "getDocInfo", RuleIndex("datadogMonitor")) \in StepsOf(1))
       => AnsweredBy(1, "datadogMonitor")
  /\ (AnsweredBy(1, "datadogMonitor") /\ ~HasQualifying) =>
        TitleBase = IF H1Text # "" THEN H1Text ELSE PageAtStart.title

\* no h1, an h3 that does not qualify: document.title
C15_Witness ==
  /\ AnsweredBy(1, "datadogMonitor")
  /\ TagNodes("h1") = {}
  /\ TagNodes("h3") # {}
  /\ ~HasQualifying
  /\ returned[1].title = "Monitor | Datadog"

(***************************************************************************)
(* The claims about the Slack rule.                                        *)
(***************************************************************************)
OptionalFields == {"html", "text", "sender", "dateString", "channelName"}

\* the try block of the Slack rule runs to its return statement
SlackSucceeds == slackTry(PageAtStart).ok

\* C16: in every record getDocInfo returns, the fields html, text, sender,
\* dateString and channelName are all present or all absent; they are
\* present exactly when the Slack rule answered on its successful path, and
\* absent in the records of every other rule, of the Slack rule's catch block
\* and of the generic fallback.
C16_OptionalFieldsTogether ==
  \A c \in Calls :
    pc[c] = "done" =>
      /\ \/ OptionalFields \subseteq DOMAIN returned[c]
         \/ OptionalFields \cap DOMAIN returned[c] = {}
      /\ OptionalFields \subseteq DOMAIN returned[c]
           <=> (AnsweredBy(c, "slack") /\ SlackSucceeds)

\* a saved Slack message: all five fields
C16_Witness ==
  /\ AnsweredBy(1, "slack")
  /\ SlackSucceeds
  /\ DOMAIN returned[1] = {"link", "title"} \cup OptionalFields
  /\ returned[1].sender = "Ann"
  /\ returned[1].text = "hello"

\* what the Slack rule looks for: an element whose own text is an anchor
\* text, a message container, a time stamp that is a number
AnchorNodes ==
  {n \in DOMAIN attrs : \/ startsWith(attrs[n].text, "Saved for later")
                         \/ attrs[n].text = "Also sent to the channel"}
ContainerNodes == {n \in DOMAIN attrs : isMessageContent(attrs[n])}
NoContainerAfterAnchor ==
  \A a \in AnchorNodes : \A m \in ContainerNodes : PlaceOf(m) < PlaceOf(a)
SlackInvoked == Event(1, "getDocInfo", RuleIndex("slack")) \in StepsOf(1)
SlackFallbackRecord == DocInfo(location.href, PageAtStart.title \o " (Slack)")

\* C17: when a step of the Slack rule fails (no anchor text, no message
\* container after the anchor, or another exception), the rule itself
\* returns {link: location.href, title: document.title + " (Slack)"}: the
\* dispatcher sees no exception of the rule, and the call ends with this
\* record, not with the generic fallback.
C17_SlackFailureRecord ==
  /\ Event(1, "getDocInfoThrew", RuleIndex("slack")) \notin StepsOf(1)
  /\ (SlackInvoked /\ pc[1] = "done") =>
        /\ AnsweredBy(1, "slack")
        /\ ~SlackSucceeds => returned[1] = SlackFallbackRecord
        /\ (AnchorNodes = {} \/ NoContainerAfterAnchor) =>
              returned[1] = SlackFallbackRecord

\* anchor and container are there, the time stamp is not a number: the
\* formatter throws, the rule answers with its fallback record
C17_Witness ==
  /\ AnsweredBy(1, "slack")
  /\ AnchorNodes # {} /\ ~NoContainerAfterAnchor
  /\ \E n \in DOMAIN attrs : attrs[n].dataTs = "soon"
  /\ ~SlackSucceeds
  /\ returned[1] = DocInfo("https://app.slack.com/client/T1/C1", "a &amp;  b (Slack)")

(***************************************************************************)
(* The claims about the generic resolver.                                  *)
(***************************************************************************)
\* call c has returned the generic record
AnsweredGeneric(c) ==
  /\ pc[c] = "done"
  /\ EventsOf(c)[Len(EventsOf(c))].ev = "fallback"

\* the content of the first meta element with property og:title
OgTitleNodes ==
  {n \in DOMAIN attrs : attrs[n].tag = "meta" /\ attrs[n].property = "og:title"}
OgTitle ==
  IF OgTitleNodes = {} THEN ""
  ELSE LET first == CHOOSE n \in OgTitleNodes :
                      \A m \in OgTitleNodes : PlaceOf(n) <= PlaceOf(m)
       IN  IF Truthy(attrs[first].content) THEN attrs[first].content ELSE ""

SchemaTitle ==
  IF Truthy(getSchemaOrgTitle(PageAtStart)) THEN getSchemaOrgTitle(PageAtStart)
  ELSE ""
SchemaAuthor ==
  IF Truthy(getSchemaOrgAuthor(PageAtStart)) THEN getSchemaOrgAuthor(PageAtStart)
  ELSE ""
OnYouTube == includes(location.hostname, "youtube.")

\* the title made of the schema.org title, the author in parentheses
SchemaForm ==
  IF SchemaAuthor = "" THEN cleanupContent(SchemaTitle)
  ELSE cleanupContent(SchemaTitle) \o " (" \o cleanupContent(SchemaAuthor) \o ")"

\* C18: the generic title follows the cascade Open Graph, schema.org,
\* document.title: an og:title that is not empty makes the title whatever
\* the schema.org title and document.title are; the schema.org title makes
\* it only when og:title is absent or empty; document.title makes it only
\* when neither gives a title.
C18_TitleCascade ==
  AnsweredGeneric(1) =>
    /\ OgTitle # "" =>
          /\ returned[1].title = ogTitleBranch(PageAtStart, OgTitle)
          /\ ~OnYouTube => returned[1].title = cleanupContent(OgTitle)
    /\ (OgTitle = "" /\ SchemaTitle # "") => returned[1].title = SchemaForm
    /\ (OgTitle = "" /\ SchemaTitle = "") =>
          returned[1].title = documentTitleFallback(PageAtStart)

\* an empty og:title before an item with a headline: the schema.org title
C18_Witness ==
  /\ AnsweredGeneric(1)
  /\ OgTitleNodes # {} /\ OgTitle = ""
  /\ SchemaTitle = "Head  Article"
  /\ returned[1].title = "Head Article"

\* the list of types the title is looked up in
ClaimedTypes ==
  <<"VideoObject", "Article", "NewsArticle", "BlogPosting", "WebPage",
    "CreativeWork", "Thing">>

\* the item element of a type (the first in document order) and the value
\* of a property of it: the content of its first meta child of that name
ItemsOfType(type) ==
  {n \in DOMAIN attrs : attrs[n].itemscope /\ attrs[n].itemtype = SchemaPrefix \o type}
FirstIn(S) == CHOOSE n \in S : \A m \in S : PlaceOf(n) <= PlaceOf(m)
PropNodes(item, prop) ==
  {n \in DOMAIN attrs : /\ attrs[n].tag = "meta" /\ attrs[n].itemprop = prop
                         /\ n \in {kids0[item][j] : j \in 1..Len(kids0[item])}}
PropOf(type, prop) ==
  IF ItemsOfType(type) = {} THEN ""
  ELSE IF PropNodes(FirstIn(ItemsOfType(type)), prop) = {} THEN ""
  ELSE LET v == attrs[FirstIn(PropNodes(FirstIn(ItemsOfType(type)), prop))].content
       IN  IF Truthy(v) THEN v ELSE ""
TypeTitle(type) ==
  IF PropOf(type, "headline") # "" THEN PropOf(type, "headline")
  ELSE PropOf(type, "name")
TitledTypes == {i \in 1..Len(ClaimedTypes) : TypeTitle(ClaimedTypes[i]) # ""}
ClaimedSchemaTitle ==
  IF TitledTypes = {} THEN ""
  ELSE TypeTitle(ClaimedTypes[CHOOSE i \in TitledTypes : \A j \in TitledTypes : i <= j])

\* C19: the schema.org title comes from the earliest type of the list
\* VideoObject, Article, NewsArticle, BlogPosting, WebPage, CreativeWork,
\* Thing whose item has a headline or a name that is not empty, wherever the
\* items stand in the document; within a type the headline goes before the
\* name.
C19_EarliestTypeInList ==
  /\ SchemaTitle = ClaimedSchemaTitle
  /\ (AnsweredGeneric(1) /\ OgTitle = "" /\ ClaimedSchemaTitle # ""
         /\ SchemaAuthor = "") =>
        returned[1].title = cleanupContent(ClaimedSchemaTitle)

\* a WebPage item with a name stands before an Article item whose name
\* stands before its headline: the headline of the Article
C19_Witness ==
  /\ AnsweredGeneric(1)
  /\ OgTitleNodes = {}
  /\ \E w \in ItemsOfType("WebPage") : \E a \in ItemsOfType("Article") :
        /\ PlaceOf(w) < PlaceOf(a)
        /\ \E n \in PropNodes(a, "name") : \E h \in PropNodes(a, "headline") :
              PlaceOf(n) < PlaceOf(h)
  /\ PropOf("WebPage", "name") = "Name WebPage"
  /\ returned[1].title = "Head Article"

(***************************************************************************)
(* The claim about isMatch.                                                *)
(***************************************************************************)
\* the messages an isMatch of the rule list pushes on this location
IsMatchMessages ==
  UNION {{isMatchLogs(Rules[r], location)[j] :
            j \in 1..Len(isMatchLogs(Rules[r], location))} : r \in 1..Len(Rules)}

\* C20: evaluating isMatch of a rule of the list has no side effect: the
\* document stays as it is and no message of an isMatch is ever in the log
\* buffer.
C20_IsMatchSideEffectFree ==
  \A j \in 1..Len(logs) : logs[j].msg \notin IsMatchMessages

(***************************************************************************)
(* The claims about the document and about overlapping calls.              *)
(***************************************************************************)
\* the rules whose extractor searches with findFirstInWholeDFS
AnchorRules == {RuleIndex("datadogLogs"), RuleIndex("slack")}

\* C21: once a call of getDocInfo has settled, whichever rules matched,
\* threw or fell back, the document tree is the tree before the call: the
\* synthetic anchor of findFirstInWholeDFS, the only change made to it, is
\* gone.
C21_DocumentRestored ==
  \A c \in Calls :
    pc[c] = "done" =>
      /\ kids = kids0
      /\ dummyStart \notin DOMAIN kids
      /\ \A n \in DOMAIN kids : \A j \in 1..Len(kids[n]) : kids[n][j] # dummyStart

\* a call has returned after an extractor searched a document with elements
\* in body from a synthetic anchor
C21_Witness ==
  \E c \in Calls :
    /\ pc[c] = "done"
    /\ \E i \in AnchorRules : Event(c, "getDocInfo", i) \in StepsOf(c)
    /\ Len(kids0[BodyEl]) > 0
    /\ kids = kids0

\* the entries of one call stand together in a sequence of entries
Contiguous(calls) ==
  \A i, j, k \in 1..Len(calls) :
    (i < j /\ j < k /\ calls[i] = calls[k]) => calls[j] = calls[i]

\* C22: a call of getDocInfo runs to completion before the next one begins:
\* when getDocInfo is called again while an earlier call is pending, the
\* steps of the two calls (isMatch, extractor, messages pushed to the log)
\* do not interleave.
C22_NoInterleaving ==
  /\ Contiguous([j \in 1..Len(trace) |-> trace[j].call])
  /\ Contiguous([j \in 1..Len(logs) |-> logs[j].call])

\* the elements of the document a selector of findElement matches
SelectorNodes(shown) ==
  {n \in DOMAIN kids :
     \/ shown = ".hp-header-title-wrapper"
          /\ hasClass(attrs[n], "hp-header-title-wrapper")
     \/ shown = "h3.name" /\ attrs[n].tag = "h3" /\ hasClass(attrs[n], "name")}
FindSelectors == {".hp-header-title-wrapper", "h3.name"}

\* the call has just been handed the failure of findElement(shown)
NotFoundDelivered(shown) ==
  /\ Len(logs) > 0
  /\ \E i \in 1..Len(Rules) :
        logs[Len(logs)].msg = CROSSMARK \o " Error in rule " \o ruleLabel(i)
                                \o ": Error: Element not found: " \o shown

\* C23: findElement(selector) waits for the element: an element inserted
\* after the call started is found, and findElement fails with "Element not
\* found" only if no matching element has appeared: when the failure reaches
\* the caller, the document holds no element the selector matches.
C23_FindElementWaits ==
  \A shown \in FindSelectors :
    NotFoundDelivered(shown) => SelectorNodes(shown) = {}

\* the marker a heading begins with, "" when it begins with none
MarkerOf(s) ==
  IF \E m \in Markers : startsWith(s, m)
  THEN CHOOSE m \in Markers : startsWith(s, m)
  ELSE ""

\* the heading after its leading marker and the white space that follows it
AfterMarker(s) ==
  From(s, Len(MarkerOf(s)) + spacesAt(s, Len(MarkerOf(s)) + 1) + 1)

\* C24: when the selected h3 begins with "[Triggered] " or "[Warn] ", the
\* title is the heading without that leading marker and the white space
\* after it (the curly tags moved, the time range appended), whichever marker it is and whatever the rest
\* of the heading holds.
C24_LeadingMarkerStripped ==
  (AnsweredBy(1, "datadogMonitor") /\ HasQualifying
     /\ MarkerOf(TextOf(FirstQualifying)) # "") =>
    returned[1].title =
      moveCurlyTags(AfterMarker(TextOf(FirstQualifying))) \o TimeRangeSuffix

(***************************************************************************)
(* The claims about findInParentChain.                                     *)
(***************************************************************************)
\* the elements below a, and the chain start, parent(start), ..., root
Below(a) ==
  LET under == Preorder(kids, a)
  IN  {under[i] : i \in 2..Len(under)}
ChainOf(s) == {a \in DOMAIN kids : a = s \/ s \in Below(a)}
Selected == {n \in DOMAIN kids : cond[n] = "true"}
\* the elements of the chain of the start that have a selected descendant
Holders == {a \in ChainOf(startEl) : Below(a) \cap Selected # {}}
Nearest == CHOOSE a \in Holders : \A b \in Holders : b = a \/ a \in Below(b)

\* C25: findInParentChain(start, selector) returns the first element in
\* document order among the selected descendants of the nearest element of
\* the chain start, parent(start), ..., root that has a selected descendant;
\* it returns null exactly when no element of the chain has one, and it
\* never throws.
C25_NearestHolderFirstMatch ==
  pcD = "findInChain" =>
    /\ ~ret.exc
    /\ (ret.res = Null) <=> (Holders = {})
    /\ Holders # {} =>
         /\ ret.res \in Below(Nearest) \cap Selected
         /\ \A m \in Below(Nearest) \cap Selected :
              PosIn(DocOrder(kids), ret.res) <= PosIn(DocOrder(kids), m)

\* the start has no selected descendant, an ancestor has two, and the first
\* of them is returned
C25_Witness ==
  /\ pcD = "findInChain"
  /\ Below(startEl) \cap Selected = {}
  /\ Holders # {}
  /\ \E m \in Below(Nearest) \cap Selected :
        /\ m # ret.res
        /\ PosIn(DocOrder(kids), ret.res) < PosIn(DocOrder(kids), m)

(***************************************************************************)
(* The claim about the time-stamp link of the Slack rule.                  *)
(***************************************************************************)
StampNodes == {n \in DOMAIN attrs : attrs[n].tag = "a" /\ attrs[n].dataTs # Absent}
ClassStampNodes == {n \in StampNodes : hasClass(attrs[n], "c-timestamp")}
InContainer(n) == \E m \in ContainerNodes : n \in Below(m)

\* C26: the time-stamp link of the Slack rule is looked for on the ancestor
\* chain of the message container and not in the container: the link of the
\* record is never the href of an a[data-ts] inside the container, and it is
\* the href of an a[data-ts] without the class c-timestamp only when the
\* document has no a.c-timestamp[data-ts].
C26_StampOutsideContainer ==
  (AnsweredBy(1, "slack") /\ SlackSucceeds) =>
    /\ \A n \in StampNodes : InContainer(n) => returned[1].link # attrs[n].href
    /\ \A n \in StampNodes \ ClassStampNodes :
         returned[1].link = attrs[n].href => ClassStampNodes = {}

(***************************************************************************)
(* The claim about getSchemaOrgContent.                                    *)
(***************************************************************************)
ScopeNodes == {n \in DOMAIN attrs : attrs[n].itemscope}
Within(s, n) == s = n \/ n \in Below(s)
\* the nearest element with itemscope that encloses n, n itself included
NearestScope(n) ==
  IF \E s \in ScopeNodes : Within(s, n)
  THEN CHOOSE s \in ScopeNodes :
         /\ Within(s, n)
         /\ \A u \in ScopeNodes : Within(u, n) => Within(u, s)
  ELSE Null
\* the element of S that comes first in document order
FirstOf(S) ==
  LET order == DocOrder(kids)
  IN  order[CHOOSE i \in 1..Len(order) :
              order[i] \in S /\ \A j \in 1..(i - 1) : order[j] \notin S]
AskedItems == {n \in ScopeNodes : attrs[n].itemtype = ret.itemType}
\* the elements with the property whose nearest item scope is the first item
\* of the type asked for
OwnProps ==
  IF AskedItems = {} THEN {}
  ELSE {n \in DOMAIN attrs : /\ attrs[n].itemprop = "name"
                             /\ n \in Below(FirstOf(AskedItems))
                             /\ NearestScope(n) = FirstOf(AskedItems)}
OwnWithTag(name) == {n \in OwnProps : attrs[n].tag = name}

\* C27: getSchemaOrgContent(itemType, property) takes its value only from an
\* element whose nearest enclosing item scope is the first item of the type:
\* from the first such meta (its content), else from the first such link
\* (its href, or its content), else from the first such element (its trimmed
\* text); without such an element it returns null, whatever elements with
\* the property sit in nested or foreign item scopes.
C27_OwnScopeOnly ==
  pcD = "getSchemaOrgContent" =>
    ret.res =
      IF OwnWithTag("meta") # {} THEN attrs[FirstOf(OwnWithTag("meta"))].content
      ELSE IF OwnWithTag("link") # {}
      THEN IF Truthy(attrs[FirstOf(OwnWithTag("link"))].href)
           THEN attrs[FirstOf(OwnWithTag("link"))].href
           ELSE attrs[FirstOf(OwnWithTag("link"))].content
      ELSE IF OwnProps # {} /\ trim(attrs[FirstOf(OwnProps)].text) # ""
      THEN trim(attrs[FirstOf(OwnProps)].text)
      ELSE Absent

\* a meta in the nested person and a meta in the second article, the text
\* of the wrapped element of the first article is returned
C27_Witness ==
  /\ pcD = "getSchemaOrgContent"
  /\ ret.itemType = SchemaPrefix \o "Article"
  /\ \E n \in DOMAIN attrs :
        attrs[n].tag = "meta" /\ attrs[n].content # Absent
          /\ n \in Below(NestedItem) \cup Below(SecondItem)
  /\ \E n \in Below(Wrapper) : ret.res = trim(attrs[n].text) /\ ret.res # ""

(***************************************************************************)
(* The claim about the Asana rule.                                         *)
(***************************************************************************)
\* the href with focus=true set: the value replaced where the parameter is
\* there, the parameter appended where it is not
WithFocus(l) ==
  IF includes(l.search, "focus=false")
  THEN l.origin \o l.pathname \o "?focus=true"
         \o From(l.search, Len("?focus=false") + 1)
  ELSE l.href \o (IF l.search = "" THEN "?" ELSE "&") \o "focus=true"

\* C28: on app.asana.com, a document title of the bullet, a team, " - ", a
\* task and " - Asana" gives the title of the task, whole, followed by
\* " (Asana)", and the link is the href with focus=true set.
C28_AsanaTaskKeptWhole ==
  \A team \in AsanaTeams, task \in AsanaTasks :
    (AnsweredBy(1, "asana") /\ docTitle = AsanaTitle(team, task)) =>
      /\ returned[1].title = task \o " (Asana)"
      /\ returned[1].link = WithFocus(location)

(***************************************************************************)
(* The claim about the anchor and overlapping calls.                       *)
(***************************************************************************)
HoldsAnchor(k) ==
  \/ dummyStart \in DOMAIN k
  \/ \E n \in DOMAIN k : \E j \in 1..Len(k[n]) : k[n][j] = dummyStart

\* C29: whenever control can pass from one call to another (no call is
\* running: each is idle, suspended at its await or done), the document
\* holds no synthetic anchor, so no call sees the anchor of another call.
C29_NoAnchorAtSwitch ==
  active = 0 => ~HoldsAnchor(kids)

\* the second call has started while the first is suspended at the await of
\* an extractor that searched from the anchor a document with elements in
\* body
C29_Witness ==
  /\ active = 0
  /\ pc[1] = "await" /\ ruleIdx[1] \in AnchorRules
  /\ pc[2] = "await" /\ ruleIdx[2] \in AnchorRules
  /\ Len(kids[BodyEl]) > 0
  /\ ~HoldsAnchor(kids)

(***************************************************************************)
(* The claim about githubCommit and the rules after it.                    *)
(***************************************************************************)
LaterRules ==
  {"datadogMonitor", "datadogNotebook", "datadogLogs", "datadogGeneral",
   "temporal", "notion", "asana", "greenhouse", "launchDarkly", "goodreads",
   "slack"}
CommitSep == " " \o MIDDOT \o " "
\* cut is title up to its last separator, title itself without separator
CutAtLastSep(title, cut) ==
  IF includes(title, CommitSep)
  THEN \E rest \in {From(title, Len(cut) + Len(CommitSep) + 1)} :
         /\ title = cut \o CommitSep \o rest
         /\ ~includes(rest, CommitSep)
  ELSE cut = title

\* C30: on a page of a host of the Datadog, Temporal, Notion, Asana,
\* Greenhouse, LaunchDarkly, Goodreads or Slack rule whose href contains
\* "/commit/", none of these rules is consulted (neither its isMatch nor its
\* extractor), and the call ends with the record of githubCommit: the title
\* cut at the last separator, the link origin plus pathname.
C30_CommitBeforeHostRules ==
  (location \in CommitLocations /\ includes(location.href, "/commit/")) =>
    /\ \A j \in 1..Len(trace) :
         trace[j].rule = 0 \/ Rules[trace[j].rule] \notin LaterRules
    /\ pc[1] = "done" =>
         /\ EventsOf(1)[Len(EventsOf(1))].ev = "return"
         /\ Rules[EventsOf(1)[Len(EventsOf(1))].rule] = "githubCommit"
         /\ CutAtLastSep(docTitle, returned[1].title)
         /\ returned[1].link = location.origin \o location.pathname

\* a Datadog monitor page with "/commit/" in its path and two separators in
\* its title
C30_Witness ==
  /\ pc[1] = "done"
  /\ location.href = "https://app.datadoghq.com/monitors/commit/1"
  /\ docTitle = "a " \o MIDDOT \o " b " \o MIDDOT \o " o/r@abc"
  /\ returned[1] = DocInfo("https://app.datadoghq.com/monitors/commit/1",
                           "a " \o MIDDOT \o " b")

=============================================================================
